---- MODULE Spec2Model ----
(***************************************************************************)
(* A model of the MessageHandler network: the MessageHandler base class    *)
(* (remote/shared/messagehandler/MessageHandler.jsm), together with the    *)
(* collaborators it is used with: the ModuleCache, the registry of         *)
(* MessageHandler instances and a forwarding subclass with its transport.  *)
(***************************************************************************)
EXTENDS Integers, Sequences, FiniteSets, TLC

(* ------------------------------ bounds -------------------------------- *)

\* MessageHandler instances ever constructed.
MaxHandlers == 3

\* handleCommand calls made by external callers.
MaxCalls == 2

\* destroy() calls on one instance.
MaxDestroys == 1

\* Listeners registered on one emitter.
MaxListeners == 3

\* emitEvent calls made by modules and handlers.
MaxEmits == 2

(* ------------------------------ fixture ------------------------------- *)

Sessions == {"S1", "S2"}

\* The handler kinds, from the root towards the contexts.
HandlerTypes == <<"Root", "Leaf">>

TypeSet == {HandlerTypes[i] : i \in 1..Len(HandlerTypes)}

Level(type) == CHOOSE i \in 1..Len(HandlerTypes) : HandlerTypes[i] = type

HasNextHop(type) == Level(type) < Len(HandlerTypes)

NextType(type) == HandlerTypes[Level(type) + 1]

\* Concrete contexts: the same context id is carried by successive context
\* objects (gen), as when a navigation replaces the underlying object.
RootContext == [id |-> "none", gen |-> 0]

LeafContexts == { [id |-> "ctx-42", gen |-> 0], [id |-> "ctx-42", gen |-> 1] }

ContextsOf(type) == IF type = "Root" THEN {RootContext} ELSE LeafContexts

\* The static module registry, in iteration order.  A class is written for
\* one destination type and runs in one handler type.  Several classes of
\* the module "log" support the same command for a leaf destination, two of
\* them in the root and two in the leaf.
ModuleClasses ==
  << [moduleName |-> "nav", runsIn |-> "Root", dest |-> "Root", methods |-> {"go"}],
     [moduleName |-> "nav", runsIn |-> "Root", dest |-> "Leaf", methods |-> {"stop"}],
     [moduleName |-> "nav", runsIn |-> "Leaf", dest |-> "Leaf", methods |-> {"go"}],
     [moduleName |-> "log", runsIn |-> "Leaf", dest |-> "Leaf", methods |-> {"entry", "rotate"}],
     [moduleName |-> "log", runsIn |-> "Root", dest |-> "Leaf", methods |-> {"entry"}],
     [moduleName |-> "log", runsIn |-> "Root", dest |-> "Leaf", methods |-> {"entry", "clear"}],
     [moduleName |-> "log", runsIn |-> "Leaf", dest |-> "Leaf", methods |-> {"entry", "clear"}] >>

ToRoot == [type |-> "Root", id |-> "root"]

ToLeaf == [type |-> "Leaf", id |-> "ctx-42"]

Command(commandName, destination, retryOnAbort) ==
  [ moduleName |-> "nav", commandName |-> commandName, params |-> <<"p1">>,
    destination |-> destination, retryOnAbort |-> retryOnAbort ]

\* The commands callers send.
Commands ==
  { Command("go", ToRoot, FALSE), Command("stop", ToLeaf, FALSE),
    Command("go", ToLeaf, FALSE), Command("go", ToLeaf, TRUE) }

(* ------------------------------ outcomes ------------------------------ *)

NoOutcome == [kind |-> "none"]

Undefined == [kind |-> "value", value |-> <<"undefined">>]

UnsupportedCommandError(moduleName, commandName, destination) ==
  [kind |-> "error", name |-> "UnsupportedCommandError",
   message |-> <<moduleName, commandName, destination.type>>]

NotImplementedError == [kind |-> "error", name |-> "Error", message |-> <<"Not implemented">>]

AbortError == [kind |-> "error", name |-> "AbortError", message |-> <<"actor destroyed">>]

TypeError == [kind |-> "error", name |-> "TypeError", message |-> <<"undefined has no properties">>]

IsFailure(outcome) == outcome.kind = "error"

(* ---------------------------- MessageHandler --------------------------- *)

\* A context no id can be read from, as a context that is null.
NullContext == [id |-> "null", gen |-> 0]

\* static getIdFromContext of the concrete handler classes.
getIdFromContext(type, context) == IF type = "Root" THEN "root" ELSE context.id

\* Whether getIdFromContext throws: the root class reads nothing from its
\* context, the other classes read its id.
getIdFromContextThrows(type, context) == type # "Root" /\ context = NullContext

\* new EventsDispatcher(messageHandler)
EventsDispatcher == [state |-> "live", listeners |-> <<>>]

\* A field the constructor has not assigned.
UndefinedField == [state |-> "undefined", listeners |-> <<>>]

\* The constructor taking the context id from one fixed class, not from the
\* class being constructed.
MessageHandler_static(type, sessionId, context) ==
  [ type |-> type,
    listeners |-> <<>>,
    modules |-> {},
    sessionId |-> sessionId,
    context |-> context,
    contextId |-> getIdFromContext("Root", context),
    eventsDispatcher |-> EventsDispatcher,
    destroyed |-> 0,
    released |-> {},
    applied |-> <<>> ]

\* new MessageHandler(sessionId, context) for the class of the given type:
\* the object the constructor leaves behind.  When getIdFromContext throws,
\* the constructor ends there, with the fields assigned after it undefined.
MessageHandler(type, sessionId, context) ==
  LET thrown == getIdFromContextThrows(type, context)
  IN [ type |-> type,
       listeners |-> <<>>,
       modules |-> {},
       sessionId |-> sessionId,
       context |-> context,
       contextId |-> IF thrown THEN "undefined" ELSE getIdFromContext(type, context),
       eventsDispatcher |-> IF thrown THEN UndefinedField ELSE EventsDispatcher,
       destroyed |-> 0,
       released |-> {},
       applied |-> <<>> ]

\* get name(): the session id, the type of the class and the context id,
\* joined with "-".
get_name(handler) == handler.sessionId \o "-" \o handler.type \o "-" \o handler.contextId

\* ModuleCache.destroy: every cached instance is destroyed, none stays
\* cached.
ModuleCache_destroy(modules) == [modules |-> {}, destroyed |-> modules]

\* A destroy that marks the dispatcher and keeps its listeners.
EventsDispatcher_destroy_keeping(dispatcher) == [dispatcher EXCEPT !.state = "destroyed"]

\* EventsDispatcher.destroy
EventsDispatcher_destroy(dispatcher) == [state |-> "destroyed", listeners |-> <<>>]

\* destroy tearing down without emitting "message-handler-destroyed".
destroy_silent(handler) ==
  [ handler |-> [handler EXCEPT !.eventsDispatcher = EventsDispatcher_destroy(@),
                                !.modules = ModuleCache_destroy(@).modules,
                                !.released = @ \cup ModuleCache_destroy(handler.modules).destroyed,
                                !.destroyed = @ + 1],
    emitted |-> <<>>,
    thrown |-> <<>> ]

\* destroy leaving the module cache alone.
destroy_cached(handler) ==
  LET torn == [handler EXCEPT !.eventsDispatcher = EventsDispatcher_destroy(@),
                              !.destroyed = @ + 1]
  IN [ handler |-> torn,
       emitted |-> << [name |-> "message-handler-destroyed", data |-> torn] >>,
       thrown |-> <<>> ]

\* destroy dropping the context id with the rest.
destroy_forgetting(handler) ==
  LET cache == ModuleCache_destroy(handler.modules)
      torn == [handler EXCEPT !.eventsDispatcher = EventsDispatcher_destroy(@),
                              !.modules = cache.modules,
                              !.released = @ \cup cache.destroyed,
                              !.contextId = "undefined",
                              !.destroyed = @ + 1]
  IN [ handler |-> torn,
       emitted |-> << [name |-> "message-handler-destroyed", data |-> torn] >>,
       thrown |-> <<>> ]

\* destroy emitting "message-handler-destroyed" first and tearing down after.
destroy_early(handler) ==
  LET cache == ModuleCache_destroy(handler.modules)
      torn == [handler EXCEPT !.eventsDispatcher = EventsDispatcher_destroy(@),
                              !.modules = cache.modules,
                              !.released = @ \cup cache.destroyed,
                              !.destroyed = @ + 1]
  IN [ handler |-> torn,
       emitted |-> << [name |-> "message-handler-destroyed", data |-> handler] >>,
       thrown |-> <<>> ]

\* MessageHandler.destroy: the dispatcher and the module cache are torn down,
\* then "message-handler-destroyed" is emitted on the handler.  Calling
\* destroy of an undefined _eventsDispatcher throws, which ends the method.
destroy(handler) ==
  IF handler.eventsDispatcher = UndefinedField
  THEN [ handler |-> handler, emitted |-> <<>>, thrown |-> <<TypeError>> ]
  ELSE LET cache == ModuleCache_destroy(handler.modules)
           torn == [handler EXCEPT !.eventsDispatcher = EventsDispatcher_destroy(@),
                                   !.modules = cache.modules,
                                   !.released = @ \cup cache.destroyed,
                                   !.destroyed = @ + 1]
       IN [ handler |-> torn,
            emitted |-> << [name |-> "message-handler-destroyed", data |-> torn] >>,
            thrown |-> <<>> ]

\* MessageHandler.applyInitialSessionDataItems: nothing is done with the
\* items by default.  The handler notes the call and what it was given.
applyInitialSessionDataItems(handler, sessionDataItems) ==
  [handler EXCEPT !.applied = Append(@, sessionDataItems)]

(* ------------------------------ ModuleCache ---------------------------- *)

NullModule ==
  [class |-> 0, moduleName |-> "", destination |-> [type |-> "", id |-> ""], serial |-> 0]

\* ModuleCache.getAllModuleClasses: the classes written for the destination
\* type that run either at the destination or in this handler's type.
getAllModuleClasses(handler, moduleName, destination) ==
  SelectSeq(ModuleClasses,
            LAMBDA cls : /\ cls.moduleName = moduleName
                         /\ cls.dest = destination.type
                         /\ cls.runsIn \in {destination.type, handler.type})

\* The class the loader resolves for an instance living in this handler.
ResolveClass(handler, moduleName, destination) ==
  LET found == {i \in 1..Len(ModuleClasses) :
                  /\ ModuleClasses[i].moduleName = moduleName
                  /\ ModuleClasses[i].runsIn = handler.type
                  /\ ModuleClasses[i].dest = destination.type}
  IN IF found = {} THEN 0 ELSE CHOOSE i \in found : \A j \in found : i <= j

\* A getModuleInstance that constructs an instance at every call.
getModuleInstance_fresh(handler, moduleName, destination) ==
  LET class == ResolveClass(handler, moduleName, destination)
      fresh == [class |-> class, moduleName |-> moduleName, destination |-> destination,
                serial |-> Cardinality(handler.modules \cup handler.released) + 1]
  IN IF class = 0
     THEN [instance |-> NullModule, modules |-> handler.modules]
     ELSE [instance |-> fresh, modules |-> handler.modules \cup {fresh}]

\* ModuleCache.getModuleInstance: the cached instance of the key, or a new
\* instance of the resolved class, cached; null when no class resolves.  An
\* instance is an object of its own: it carries the number of the
\* construction that made it, among those of its handler.
getModuleInstance(handler, moduleName, destination) ==
  LET cached == {m \in handler.modules :
                   m.moduleName = moduleName /\ m.destination = destination}
      class == ResolveClass(handler, moduleName, destination)
      fresh == [class |-> class, moduleName |-> moduleName, destination |-> destination,
                serial |-> Cardinality(handler.modules \cup handler.released) + 1]
  IN IF cached # {}
     THEN [instance |-> CHOOSE m \in cached : TRUE, modules |-> handler.modules]
     ELSE IF class = 0
       THEN [instance |-> NullModule, modules |-> handler.modules]
       ELSE [instance |-> fresh, modules |-> handler.modules \cup {fresh}]

\* Module.supportsMethod, of an instance.
ModuleSupportsMethod(module, commandName) ==
  module.class # 0 /\ commandName \in ModuleClasses[module.class].methods

(* ----------------------- MessageHandler commands ----------------------- *)

\* MessageHandler.supportsCommand
supportsCommand(handler, moduleName, commandName, destination) ==
  LET classes == getAllModuleClasses(handler, moduleName, destination)
  IN \E i \in 1..Len(classes) : commandName \in classes[i].methods

\* ModuleCache.getAllModuleClasses as a call: the classes it answers with
\* and the cache it leaves.
ModuleCache_getAllModuleClasses(handler, moduleName, destination) ==
  [ classes |-> getAllModuleClasses(handler, moduleName, destination),
    modules |-> handler.modules ]

\* MessageHandler.getAllModuleClasses as a call: the value it returns and
\* the handler it leaves.
getAllModuleClasses_call(handler, moduleName, destination) ==
  LET asked == ModuleCache_getAllModuleClasses(handler, moduleName, destination)
  IN [ value |-> asked.classes, handler |-> [handler EXCEPT !.modules = asked.modules] ]

\* A supportsCommand that asks the handler's instance of the module.
supportsCommand_instance(handler, moduleName, commandName, destination) ==
  LET got == getModuleInstance(handler, moduleName, destination)
  IN [ value |-> ModuleSupportsMethod(got.instance, commandName),
       handler |-> [handler EXCEPT !.modules = got.modules] ]

\* A supportsCommand that asks every class.
supportsCommand_every(handler, moduleName, commandName, destination) ==
  LET asked == getAllModuleClasses_call(handler, moduleName, destination)
  IN [ value |-> \A i \in 1..Len(asked.value) : commandName \in asked.value[i].methods,
       handler |-> asked.handler ]

\* MessageHandler.supportsCommand as a call: the value it returns and the
\* handler it leaves.
supportsCommand_call(handler, moduleName, commandName, destination) ==
  LET asked == getAllModuleClasses_call(handler, moduleName, destination)
  IN [ value |-> \E i \in 1..Len(asked.value) : commandName \in asked.value[i].methods,
       handler |-> asked.handler ]

\* What one handleCommand call does: the error it throws, the module methods
\* it invokes, the commands it hands to forwardCommand, which of these it
\* returns, and the module cache it leaves behind.
Throw(error, modules) ==
  [ throw |-> <<error>>, invoke |-> <<>>, forward |-> <<>>, returns |-> "throw",
    modules |-> modules ]

ReturnInvoke(module, method, args, modules) ==
  [ throw |-> <<>>,
    invoke |-> << [module |-> module, method |-> method, args |-> args] >>,
    forward |-> <<>>, returns |-> "invoke", modules |-> modules ]

ReturnForward(command, modules) ==
  [ throw |-> <<>>, invoke |-> <<>>, forward |-> <<command>>, returns |-> "forward",
    modules |-> modules ]

\* A handleCommand that invokes the module and forwards the command as well.
handleCommand_both(handler, command) ==
  LET got == getModuleInstance(handler, command.moduleName, command.destination)
      module == got.instance
  IN IF ~supportsCommand(handler, command.moduleName, command.commandName,
                         command.destination)
     THEN Throw(UnsupportedCommandError(command.moduleName, command.commandName,
                                        command.destination), handler.modules)
     ELSE IF module # NullModule /\ ModuleSupportsMethod(module, command.commandName)
       THEN [ReturnInvoke(module, command.commandName,
                          <<command.params, command.destination>>, got.modules)
               EXCEPT !.forward = <<command>>]
       ELSE ReturnForward(command, got.modules)

\* handleCommand without the supportsCommand check.
handleCommand_unchecked(handler, command) ==
  LET got == getModuleInstance(handler, command.moduleName, command.destination)
      module == got.instance
  IN IF module # NullModule /\ ModuleSupportsMethod(module, command.commandName)
     THEN ReturnInvoke(module, command.commandName,
                       <<command.params, command.destination>>, got.modules)
     ELSE ReturnForward(command, got.modules)

\* handleCommand calling the method without the destination.
handleCommand_args(handler, command) ==
  LET got == getModuleInstance(handler, command.moduleName, command.destination)
      module == got.instance
  IN IF ~supportsCommand(handler, command.moduleName, command.commandName,
                         command.destination)
     THEN Throw(UnsupportedCommandError(command.moduleName, command.commandName,
                                        command.destination), handler.modules)
     ELSE IF module # NullModule /\ ModuleSupportsMethod(module, command.commandName)
       THEN ReturnInvoke(module, command.commandName, <<command.params>>, got.modules)
       ELSE ReturnForward(command, got.modules)

\* handleCommand forwarding a command rebuilt from the four fields it reads,
\* which leaves retryOnAbort at its default.
handleCommand_rebuilt(handler, command) ==
  LET got == getModuleInstance(handler, command.moduleName, command.destination)
      module == got.instance
  IN IF ~supportsCommand(handler, command.moduleName, command.commandName,
                         command.destination)
     THEN Throw(UnsupportedCommandError(command.moduleName, command.commandName,
                                        command.destination), handler.modules)
     ELSE IF module # NullModule /\ ModuleSupportsMethod(module, command.commandName)
       THEN ReturnInvoke(module, command.commandName,
                         <<command.params, command.destination>>, got.modules)
       ELSE ReturnForward([command EXCEPT !.retryOnAbort = FALSE], got.modules)

\* handleCommand calling forwardCommand without returning what it answers.
handleCommand_dropped(handler, command) ==
  LET got == getModuleInstance(handler, command.moduleName, command.destination)
      module == got.instance
  IN IF ~supportsCommand(handler, command.moduleName, command.commandName,
                         command.destination)
     THEN Throw(UnsupportedCommandError(command.moduleName, command.commandName,
                                        command.destination), handler.modules)
     ELSE IF module # NullModule /\ ModuleSupportsMethod(module, command.commandName)
       THEN ReturnInvoke(module, command.commandName,
                         <<command.params, command.destination>>, got.modules)
       ELSE [ReturnForward(command, got.modules) EXCEPT !.returns = "nothing"]

\* handleCommand forwarding every command as one to retry.
handleCommand_retrying(handler, command) ==
  LET got == getModuleInstance(handler, command.moduleName, command.destination)
      module == got.instance
  IN IF ~supportsCommand(handler, command.moduleName, command.commandName,
                         command.destination)
     THEN Throw(UnsupportedCommandError(command.moduleName, command.commandName,
                                        command.destination), handler.modules)
     ELSE IF module # NullModule /\ ModuleSupportsMethod(module, command.commandName)
       THEN ReturnInvoke(module, command.commandName,
                         <<command.params, command.destination>>, got.modules)
       ELSE ReturnForward([command EXCEPT !.retryOnAbort = TRUE], got.modules)

\* MessageHandler.handleCommand
handleCommand(handler, command) ==
  LET moduleName == command.moduleName
      commandName == command.commandName
      params == command.params
      destination == command.destination
      got == getModuleInstance(handler, moduleName, destination)
      module == got.instance
  IN IF ~supportsCommand(handler, moduleName, commandName, destination)
     THEN Throw(UnsupportedCommandError(moduleName, commandName, destination),
                handler.modules)
     ELSE IF module # NullModule /\ ModuleSupportsMethod(module, commandName)
       THEN ReturnInvoke(module, commandName, <<params, destination>>, got.modules)
       ELSE ReturnForward(command, got.modules)

\* forwardCommand as an empty method.
forwardCommand_empty(command) == Undefined

\* MessageHandler.forwardCommand of the base class.
forwardCommand(command) == NotImplementedError

\* A module method called as module[commandName](params, destination): it
\* returns a value or throws, as the module decides.
ModuleOutcomes(invocation) ==
  { [kind |-> "value",
     value |-> <<invocation.module.class, invocation.method, invocation.args>>],
    [kind |-> "error", name |-> "ModuleExecutionError",
     message |-> <<invocation.method>>] }

(* ------------------------------ listeners ------------------------------ *)

\* The listener functions of the fixture.  Each notes what it is called
\* with; "faulty" then throws, "adder" subscribes "late" and "remover"
\* unsubscribes "second", both for the event they are called for, and
\* "closer" destroys the dispatcher that called it.
ListenerFns == {"first", "second", "faulty", "adder", "remover", "late", "closer"}

Throws(fn) == fn = "faulty"

Subscribes(fn) == IF fn = "adder" THEN <<"late">> ELSE <<>>

Unsubscribes(fn) == IF fn = "remover" THEN <<"second">> ELSE <<>>

Destroys(fn) == fn = "closer"

ListenerError(fn) == [kind |-> "error", name |-> "ListenerError", message |-> <<fn>>]

\* on(name, listener) of an emitter, given its listeners in registration
\* order.
on(listeners, name, fn) ==
  IF \E k \in 1..Len(listeners) : listeners[k] = [name |-> name, fn |-> fn]
  THEN listeners
  ELSE Append(listeners, [name |-> name, fn |-> fn])

\* off(name, listener)
off(listeners, name, fn) ==
  SelectSeq(listeners, LAMBDA l : l # [name |-> name, fn |-> fn])

\* What a listener leaves of the listeners when it is called for name.
Called(listeners, name, fn) ==
  LET added == IF Subscribes(fn) = <<>> THEN listeners
               ELSE on(listeners, name, Subscribes(fn)[1])
      removed == IF Unsubscribes(fn) = <<>> THEN added
                 ELSE off(added, name, Unsubscribes(fn)[1])
  IN IF Destroys(fn)
     THEN EventsDispatcher_destroy([state |-> "live", listeners |-> removed]).listeners
     ELSE removed

\* The listeners an emit of name calls: those registered when it starts.
Snapshot(listeners, name) == SelectSeq(listeners, LAMBDA l : l.name = name)

\* An emit that ends with the first listener that throws.
emit_aborting(listeners, name, data) ==
  LET snapshot == Snapshot(listeners, name)
      after[k \in 0..Len(snapshot)] ==
        IF k = 0
        THEN [listeners |-> listeners, delivered |-> <<>>, reported |-> <<>>]
        ELSE IF after[k - 1].reported # <<>> THEN after[k - 1]
        ELSE [ listeners |-> Called(after[k - 1].listeners, name, snapshot[k].fn),
               delivered |-> Append(after[k - 1].delivered,
                                    [fn |-> snapshot[k].fn, name |-> name, data |-> data]),
               reported |-> IF Throws(snapshot[k].fn)
                            THEN Append(after[k - 1].reported, ListenerError(snapshot[k].fn))
                            ELSE after[k - 1].reported ]
  IN after[Len(snapshot)]

\* An emit that walks the listeners as they are at each call, not as they
\* were when it started.
emit_live(listeners, name, data) ==
  LET steps == Len(listeners) + 1
      after[k \in 0..steps] ==
        IF k = 0
        THEN [listeners |-> listeners, delivered |-> <<>>, reported |-> <<>>]
        ELSE LET now == Snapshot(after[k - 1].listeners, name)
                 at == Len(after[k - 1].delivered) + 1
             IN IF at > Len(now) THEN after[k - 1]
                ELSE [ listeners |-> Called(after[k - 1].listeners, name, now[at].fn),
                       delivered |-> Append(after[k - 1].delivered,
                                            [fn |-> now[at].fn, name |-> name, data |-> data]),
                       reported |-> IF Throws(now[at].fn)
                                    THEN Append(after[k - 1].reported, ListenerError(now[at].fn))
                                    ELSE after[k - 1].reported ]
  IN after[steps]

\* emit(name, data) of an emitter: every listener registered for name when
\* the emit starts is called, in registration order; what a listener throws
\* is caught and reported.  The result holds the listeners the calls leave,
\* the calls made and the errors reported.
emit(listeners, name, data) ==
  LET snapshot == Snapshot(listeners, name)
      after[k \in 0..Len(snapshot)] ==
        IF k = 0
        THEN [listeners |-> listeners, delivered |-> <<>>, reported |-> <<>>]
        ELSE [ listeners |-> Called(after[k - 1].listeners, name, snapshot[k].fn),
               delivered |-> Append(after[k - 1].delivered,
                                    [fn |-> snapshot[k].fn, name |-> name, data |-> data]),
               reported |-> IF Throws(snapshot[k].fn)
                            THEN Append(after[k - 1].reported, ListenerError(snapshot[k].fn))
                            ELSE after[k - 1].reported ]
  IN after[Len(snapshot)]

\* The emits of one method, one after the other, on one emitter.
emitAll(listeners, emitted) ==
  LET after[k \in 0..Len(emitted)] ==
        IF k = 0
        THEN [listeners |-> listeners, delivered |-> <<>>, reported |-> <<>>]
        ELSE LET e == emit(after[k - 1].listeners, emitted[k].name, emitted[k].data)
             IN [ listeners |-> e.listeners,
                  delivered |-> after[k - 1].delivered \o e.delivered,
                  reported |-> after[k - 1].reported \o e.reported ]
  IN after[Len(emitted)]

(* ------------------------ MessageHandler events ------------------------ *)

EventNames == {"nav.navigated"}

EventData == { [url |-> "https://example.com"] }

\* The options object of an emitEvent call, as the set of its properties.
NoOptions == {}

Options ==
  { NoOptions,
    { [key |-> "isProtocolEvent", value |-> TRUE] },
    { [key |-> "isProtocolEvent", value |-> FALSE] } }

\* emitEvent writing false into every envelope.
emitEvent_unflagged(handler, name, data, options) ==
  LET given == {o \in options : o.key = "isProtocolEvent"}
      isProtocolEvent == IF given = {} THEN FALSE ELSE (CHOOSE o \in given : TRUE).value
      envelope == [ name |-> name, data |-> data, isProtocolEvent |-> FALSE,
                    sessionId |-> handler.sessionId ]
  IN [ emitted |-> << [name |-> "message-handler-event", data |-> envelope] >>
                     \o (IF ~isProtocolEvent THEN << [name |-> name, data |-> data] >>
                         ELSE <<>>) ]

\* emitEvent taking an event for a protocol event when the caller says
\* nothing.
emitEvent_protocol(handler, name, data, options) ==
  LET given == {o \in options : o.key = "isProtocolEvent"}
      isProtocolEvent == IF given = {} THEN TRUE ELSE (CHOOSE o \in given : TRUE).value
      envelope == [ name |-> name, data |-> data, isProtocolEvent |-> isProtocolEvent,
                    sessionId |-> handler.sessionId ]
  IN [ emitted |-> << [name |-> "message-handler-event", data |-> envelope] >>
                     \o (IF ~isProtocolEvent THEN << [name |-> name, data |-> data] >>
                         ELSE <<>>) ]

\* emitEvent emitting every event under its own name too.
emitEvent_always(handler, name, data, options) ==
  LET given == {o \in options : o.key = "isProtocolEvent"}
      isProtocolEvent == IF given = {} THEN FALSE ELSE (CHOOSE o \in given : TRUE).value
      envelope == [ name |-> name, data |-> data, isProtocolEvent |-> isProtocolEvent,
                    sessionId |-> handler.sessionId ]
  IN [ emitted |-> << [name |-> "message-handler-event", data |-> envelope],
                      [name |-> name, data |-> data] >> ]

\* emitEvent emitting the event under its own name first, the envelope
\* second.
emitEvent_reversed(handler, name, data, options) ==
  LET given == {o \in options : o.key = "isProtocolEvent"}
      isProtocolEvent == IF given = {} THEN FALSE ELSE (CHOOSE o \in given : TRUE).value
      envelope == [ name |-> name, data |-> data, isProtocolEvent |-> isProtocolEvent,
                    sessionId |-> handler.sessionId ]
  IN [ emitted |-> (IF ~isProtocolEvent THEN << [name |-> name, data |-> data] >>
                    ELSE <<>>)
                     \o << [name |-> "message-handler-event", data |-> envelope] >> ]

\* emitEvent naming the first session in every envelope.
emitEvent_shared(handler, name, data, options) ==
  LET given == {o \in options : o.key = "isProtocolEvent"}
      isProtocolEvent == IF given = {} THEN FALSE ELSE (CHOOSE o \in given : TRUE).value
      envelope == [ name |-> name, data |-> data, isProtocolEvent |-> isProtocolEvent,
                    sessionId |-> "S1" ]
  IN [ emitted |-> << [name |-> "message-handler-event", data |-> envelope] >>
                     \o (IF ~isProtocolEvent THEN << [name |-> name, data |-> data] >>
                         ELSE <<>>) ]

\* MessageHandler.emitEvent: the emits it makes on the handler.
emitEvent(handler, name, data, options) ==
  LET given == {o \in options : o.key = "isProtocolEvent"}
      isProtocolEvent == IF given = {} THEN FALSE ELSE (CHOOSE o \in given : TRUE).value
      envelope == [ name |-> name,
                    data |-> data,
                    isProtocolEvent |-> isProtocolEvent,
                    sessionId |-> handler.sessionId ]
  IN [ emitted |-> << [name |-> "message-handler-event", data |-> envelope] >>
                     \o (IF ~isProtocolEvent THEN << [name |-> name, data |-> data] >>
                         ELSE <<>>) ]

(* ------------------------------- Registry ------------------------------ *)

RegistryLookup(hs, reg, sessionId, type, contextId) ==
  {h \in reg : /\ hs[h].sessionId = sessionId
               /\ hs[h].type = type
               /\ hs[h].contextId = contextId}

\* Registry.get
get(hs, reg, sessionId, type, contextId) ==
  LET found == RegistryLookup(hs, reg, sessionId, type, contextId)
  IN IF found = {} THEN 0 ELSE CHOOSE h \in found : TRUE

\* Registry.getOrCreate
getOrCreate(hs, reg, sessionId, type, context) ==
  LET existing == get(hs, reg, sessionId, type, getIdFromContext(type, context))
      new == Len(hs) + 1
  IN IF existing # 0
     THEN [handlers |-> hs, registry |-> reg, handler |-> existing, constructed |-> FALSE]
     ELSE [handlers |-> Append(hs, MessageHandler(type, sessionId, context)),
           registry |-> reg \cup {new}, handler |-> new, constructed |-> TRUE]

\* A registry that hands the items to the handler it returns, constructed
\* or found.
Created_always(r, sessionDataItems) ==
  [r EXCEPT !.handlers[r.handler] = applyInitialSessionDataItems(@, sessionDataItems)]

\* The registry, having constructed a handler, hands it the session data
\* items of its session; a handler it found is returned as it is.
Created(r, sessionDataItems) ==
  IF r.constructed
  THEN [r EXCEPT !.handlers[r.handler] = applyInitialSessionDataItems(@, sessionDataItems)]
  ELSE r

\* Registry.remove, the listener of "message-handler-destroyed".
remove(reg, h, emitted) ==
  IF \E k \in 1..Len(emitted) : emitted[k].name = "message-handler-destroyed"
  THEN reg \ {h} ELSE reg

(* ------------------------ forwarding subclass -------------------------- *)

\* Sends the transport makes for one forwarded command: the first and one
\* retry.
MaxForwardAttempts == 2

\* The contexts a destination id names for the next hop.
HopContexts(type, destination) ==
  {c \in ContextsOf(type) : getIdFromContext(type, c) = destination.id}

\* After an abort of the link: send again, or give up with the abort.
retryAfterAbort(command, attempts) ==
  command.retryOnAbort /\ attempts < MaxForwardAttempts

(* -------------------------------- state -------------------------------- *)

VARIABLES
  handlers,   \* every MessageHandler constructed, by instance number
  registry,   \* the instances the registry holds
  calls,      \* the handleCommand calls of external callers
  links,      \* the envelopes in flight towards the handler above, oldest first
  events,     \* every emitEvent and dispatcher emit call made so far
  received,   \* what the listeners were called with, in the order of the calls
  reported,   \* the errors thrown by destroy and by listeners
  queries,    \* the getAllModuleClasses and supportsCommand calls, with their answers
  sessionData \* the session data items of each session

vars ==
  <<handlers, registry, calls, links, events, received, reported, queries, sessionData>>

Init ==
  /\ handlers = <<>>
  /\ registry = {}
  /\ calls = <<>>
  /\ links = <<>>
  /\ events = <<>>
  /\ received = <<>>
  /\ reported = <<>>
  /\ queries = <<>>
  /\ sessionData = [s \in Sessions |-> <<>>]

HandlerIds == 1..Len(handlers)

CallIds == 1..Len(calls)

\* No command has reached the next hop (yet, or any more).
NoHop == [state |-> "none"]

\* A call that answers a failed forward with undefined.
Settle_swallowing(returns, invoked, forwardOutcome) ==
  CASE returns = "invoke" -> invoked[1].outcome
    [] returns = "forward" /\ ~IsFailure(forwardOutcome) -> forwardOutcome
    [] OTHER -> Undefined

\* What a handleCommand call settles with, given what it returns.
Settle(returns, invoked, forwardOutcome) ==
  CASE returns = "invoke" -> invoked[1].outcome
    [] returns = "forward" -> forwardOutcome
    [] OTHER -> Undefined

\* The call handler.handleCommand(command) of instance h, up to the point
\* where it waits for a forwarded command, if it does.
Dispatched(hs, h, command, moduleOutcome, constructed) ==
  LET plan == handleCommand(hs[h], command)
      invoked == [k \in 1..Len(plan.invoke) |->
                    [call |-> plan.invoke[k], outcome |-> moduleOutcome]]
      forwards == plan.forward # <<>>
      sends == plan.throw = <<>> /\ forwards /\ HasNextHop(hs[h].type)
      forwardOutcome == IF forwards THEN forwardCommand(plan.forward[1]) ELSE NoOutcome
  IN [ handler |-> h, command |-> command,
       state |-> IF sends THEN "awaiting" ELSE "done",
       outcome |-> IF plan.throw # <<>> THEN plan.throw[1]
                   ELSE IF sends THEN NoOutcome
                   ELSE Settle(plan.returns, invoked, forwardOutcome),
       invoked |-> invoked, forwarded |-> plan.forward, returns |-> plan.returns,
       attempts |-> IF sends THEN 1 ELSE 0, hop |-> NoHop,
       constructed |-> constructed ]

OutcomeChoices(handler, command) ==
  LET plan == handleCommand(handler, command)
  IN IF plan.invoke = <<>> THEN {NoOutcome} ELSE ModuleOutcomes(plan.invoke[1])

(* ------------------------------- actions ------------------------------- *)

\* A consumer asks the registry for the root handler of a session.
GetOrCreate(sessionId, type, context) ==
  LET r == Created(getOrCreate(handlers, registry, sessionId, type, context),
                   sessionData[sessionId])
  IN /\ Len(r.handlers) <= MaxHandlers
     /\ handlers' = r.handlers
     /\ registry' = r.registry
     /\ UNCHANGED <<calls, links, events, received, reported, queries, sessionData>>

\* The calls of listeners, and the errors, as the logs hold them: with the
\* handler they happened on, the emitEvent call they stem from (0 for none)
\* and the number of handleCommand calls made before.
Received(delivered, h, origin) ==
  [k \in 1..Len(delivered) |->
     [ handler |-> h, origin |-> origin, fn |-> delivered[k].fn,
       name |-> delivered[k].name, data |-> delivered[k].data ]]

Reported(errors, h, op) ==
  [k \in 1..Len(errors) |->
     [ handler |-> h, op |-> op, error |-> errors[k], calls |-> Len(calls) ]]

\* handler.destroy(): what it emits reaches the listeners of the handler,
\* the registry's among them.
Destroy(h) ==
  LET d == destroy(handlers[h])
      told == emitAll(d.handler.listeners, d.emitted)
  IN /\ handlers' = [handlers EXCEPT ![h] = [d.handler EXCEPT !.listeners = told.listeners]]
     /\ registry' = remove(registry, h, d.emitted)
     /\ received' = received \o Received(told.delivered, h, 0)
     /\ reported' = reported \o Reported(d.thrown, h, "destroy")
                              \o Reported(told.reported, h, "listener")
     /\ UNCHANGED <<calls, links, events, queries, sessionData>>

\* An external caller calls handler.handleCommand(command).
Call(h, command) ==
  /\ Len(calls) < MaxCalls
  /\ \E mo \in OutcomeChoices(handlers[h], command) :
       calls' = Append(calls, Dispatched(handlers, h, command, mo, FALSE))
  /\ handlers' = [handlers EXCEPT ![h].modules = handleCommand(handlers[h], command).modules]
  /\ UNCHANGED <<registry, links, events, received, reported, queries, sessionData>>

\* The transport delivers a forwarded command: the receiving side gets or
\* creates the handler of the next hop, which handles the command.
Deliver(i) ==
  LET f == calls[i]
      me == handlers[f.handler]
      command == f.forwarded[1]
      type == NextType(me.type)
  IN /\ f.state = "awaiting"
     /\ f.hop = NoHop
     /\ \E context \in HopContexts(type, command.destination) :
          LET r == Created(getOrCreate(handlers, registry, me.sessionId, type, context),
                           sessionData[me.sessionId])
              plan == handleCommand(r.handlers[r.handler], command)
          IN /\ Len(r.handlers) <= MaxHandlers
             /\ registry' = r.registry
             /\ handlers' = [r.handlers EXCEPT ![r.handler].modules = plan.modules]
             /\ \E mo \in OutcomeChoices(r.handlers[r.handler], command) :
                  calls' = [calls EXCEPT
                              ![i].hop = Dispatched(r.handlers, r.handler, command, mo,
                                                  r.constructed)]
     /\ UNCHANGED <<links, events, received, reported, queries, sessionData>>

\* The link to the next hop is destroyed while the command is in flight:
\* the command is sent again, or the call fails with the abort.
Abort(i) ==
  LET f == calls[i]
  IN /\ f.state = "awaiting"
     /\ IF retryAfterAbort(f.forwarded[1], f.attempts)
        THEN calls' = [calls EXCEPT ![i].attempts = @ + 1, ![i].hop = NoHop]
        ELSE calls' = [calls EXCEPT ![i].state = "done", ![i].hop = NoHop,
                                    ![i].outcome = Settle(f.returns, f.invoked, AbortError)]
     /\ UNCHANGED <<handlers, registry, links, events, received, reported, queries, sessionData>>

\* The next hop answers: the call settles with the hop's outcome.
Respond(i) ==
  LET f == calls[i]
  IN /\ f.state = "awaiting"
     /\ f.hop # NoHop
     /\ f.hop.state = "done"
     /\ calls' = [calls EXCEPT ![i].state = "done",
                               ![i].outcome = Settle(f.returns, f.invoked, f.hop.outcome)]
     /\ UNCHANGED <<handlers, registry, links, events, received, reported, queries, sessionData>>

Next ==
  \/ \E s \in Sessions : GetOrCreate(s, "Root", RootContext)
  \/ \E h \in HandlerIds : handlers[h].destroyed < MaxDestroys /\ Destroy(h)
  \/ \E h \in HandlerIds, command \in Commands : Call(h, command)
  \/ \E i \in CallIds : Deliver(i)
  \/ \E i \in CallIds : Abort(i)
  \/ \E i \in CallIds : Respond(i)

Spec == Init /\ [][Next]_vars

\* The commands of callers that ask for a retry on abort: one the root
\* forwards to the leaf, one no module supports, one a leaf cannot forward.
RetryCommands ==
  { Command("go", ToLeaf, TRUE), Command("stop", ToRoot, TRUE), Command("go", ToRoot, TRUE) }

\* The network of one session, used with commands to retry on abort.
RetryNext ==
  \/ GetOrCreate("S1", "Root", RootContext)
  \/ \E h \in HandlerIds : handlers[h].destroyed < MaxDestroys /\ Destroy(h)
  \/ \E h \in HandlerIds, command \in RetryCommands : Call(h, command)
  \/ \E i \in CallIds : Deliver(i)
  \/ \E i \in CallIds : Abort(i)
  \/ \E i \in CallIds : Respond(i)

RetrySpec == Init /\ [][RetryNext]_vars

\* new Class(sessionId, context) where getIdFromContext throws: the object
\* under construction, which its ModuleCache was handed, stays as the
\* constructor left it; no registry holds it.
Construct(type, sessionId, context) ==
  /\ getIdFromContextThrows(type, context)
  /\ Len(handlers) < MaxHandlers
  /\ handlers' = Append(handlers, MessageHandler(type, sessionId, context))
  /\ reported' = reported \o Reported(<<TypeError>>, Len(handlers) + 1, "constructor")
  /\ UNCHANGED <<registry, calls, links, events, received, queries, sessionData>>

\* handler.on(name, fn): the handler is an emitter itself.
On(h, name, fn) ==
  /\ Len(handlers[h].listeners) < MaxListeners
  /\ handlers' = [handlers EXCEPT ![h].listeners = on(@, name, fn)]
  /\ UNCHANGED <<registry, calls, links, events, received, reported, queries, sessionData>>

\* The destroy() calls made on a handler: those that went through and those
\* that threw.
DestroyCalls(h) ==
  handlers[h].destroyed
    + Cardinality({k \in 1..Len(reported) :
                     reported[k].handler = h /\ reported[k].op = "destroy"})

\* The life of the handlers of one session: the root constructed by the
\* registry, a leaf left by a constructor that threw, a listener for the
\* destroyed notification, and destroy, also called a second time.
LifecycleNext ==
  \/ GetOrCreate("S1", "Root", RootContext)
  \/ Construct("Leaf", "S1", NullContext)
  \/ \E h \in HandlerIds : On(h, "message-handler-destroyed", "first")
  \/ \E h \in HandlerIds : DestroyCalls(h) <= MaxDestroys /\ Destroy(h)

LifecycleSpec == Init /\ [][LifecycleNext]_vars

(* --------------------------- event bubbling ---------------------------- *)

\* The handler kinds between the root and a leaf three hops below it.
EventPath == <<"Root", "Process", "Frame", "Leaf">>

Depth(type) == CHOOSE k \in 1..Len(EventPath) : EventPath[k] = type

\* The network of session S1 down to one leaf, and the root of session S2.
\* The roots and the leaf are listened to: "first" for the envelopes,
\* "second" for the events under their own name.
Network ==
  [k \in 1..Len(EventPath) + 1 |->
     LET fresh == IF k = 1 THEN MessageHandler("Root", "S1", RootContext)
                  ELSE IF k <= Len(EventPath)
                    THEN MessageHandler(EventPath[k], "S1", [id |-> "ctx-42", gen |-> 0])
                    ELSE MessageHandler("Root", "S2", RootContext)
     IN IF k \in {1, Len(EventPath), Len(EventPath) + 1}
        THEN [fresh EXCEPT !.listeners =
                on(on(@, "message-handler-event", "first"), "nav.navigated", "second")]
        ELSE fresh]

EventsInit ==
  /\ handlers = Network
  /\ registry = 1..Len(Network)
  /\ calls = <<>>
  /\ links = <<>>
  /\ events = <<>>
  /\ received = <<>>
  /\ reported = <<>>
  /\ queries = <<>>
  /\ sessionData = [s \in Sessions |-> <<>>]

\* The transport of a handler below the root listens to its
\* "message-handler-event" and sends each envelope to the side of the
\* handler above.
Observed(emitted, h, origin) ==
  LET envelopes == SelectSeq(emitted, LAMBDA e : e.name = "message-handler-event")
  IN [k \in 1..Len(envelopes) |->
        [from |-> h, envelope |-> envelopes[k].data, origin |-> origin]]

\* The handler the envelopes of handler h are handed to: the one of the
\* kind above, in the session the envelope names.
Upper(hs, reg, h, envelope) ==
  LET type == EventPath[Depth(hs[h].type) - 1]
  IN get(hs, reg, envelope.sessionId, type,
         IF type = "Root" THEN "root" ELSE hs[h].contextId)

\* A link hands over any envelope, whatever was sent before it.
Oldest_any(queue, m) == TRUE

\* A link hands over its envelopes in the order they were sent.
Oldest(queue, m) == \A k \in 1..(m - 1) : queue[k].from # queue[m].from

\* handler.emitEvent(name, data, options) on handler h and what happens in
\* the same turn: the listeners of the handler are called and its transport
\* sends the envelope on.  origin is the call the event stems from.
Emitting(h, name, data, options, origin, pending) ==
  LET e == emitEvent(handlers[h], name, data, options)
      told == emitAll(handlers[h].listeners, e.emitted)
      sent == IF handlers[h].type = "Root" THEN <<>> ELSE Observed(e.emitted, h, origin)
  IN /\ events' = Append(events, [ handler |-> h, name |-> name, data |-> data,
                                   options |-> options, origin |-> origin,
                                   emitted |-> e.emitted,
                                   registered |-> handlers[h].listeners,
                                   left |-> told.listeners ])
     /\ handlers' = [handlers EXCEPT ![h].listeners = told.listeners]
     /\ received' = received \o Received(told.delivered, h, origin)
     /\ reported' = reported \o Reported(told.reported, h, "listener")
     /\ links' = pending \o sent
     /\ UNCHANGED <<registry, calls, queries, sessionData>>

\* The emitEvent calls made by modules and handlers, not by a transport.
Calls == {k \in 1..Len(events) : events[k].origin = k}

\* A module or the handler itself calls emitEvent.
EmitEvent(h, name, data, options) ==
  /\ Cardinality(Calls) < MaxEmits
  /\ Emitting(h, name, data, options, Len(events) + 1, links)

\* The side of the handler above receives an envelope and calls emitEvent
\* of that handler with what the envelope holds.
Bubble(m) ==
  LET message == links[m]
      envelope == message.envelope
      upper == Upper(handlers, registry, message.from, envelope)
      rest == SubSeq(links, 1, m - 1) \o SubSeq(links, m + 1, Len(links))
  IN /\ Oldest(links, m)
     /\ IF upper = 0
        THEN /\ links' = rest
             /\ UNCHANGED <<handlers, registry, calls, events, received, reported,
                            queries, sessionData>>
        ELSE Emitting(upper, envelope.name, envelope.data,
                      { [key |-> "isProtocolEvent", value |-> envelope.isProtocolEvent] },
                      message.origin, rest)

EventsNext ==
  \/ \E h \in HandlerIds, name \in EventNames, data \in EventData, options \in Options :
       EmitEvent(h, name, data, options)
  \/ \E m \in 1..Len(links) : Bubble(m)

EventsSpec == EventsInit /\ [][EventsNext]_vars

(* --------------------------- EventsDispatcher -------------------------- *)

\* handler.eventsDispatcher.on(name, fn)
DispatcherOn(h, name, fn) ==
  /\ Len(handlers[h].eventsDispatcher.listeners) < MaxListeners
  /\ handlers' = [handlers EXCEPT ![h].eventsDispatcher.listeners = on(@, name, fn)]
  /\ UNCHANGED <<registry, calls, links, events, received, reported, queries, sessionData>>

\* handler.eventsDispatcher.emit(name, data), called by a module.  The call
\* is noted with the listeners registered when it starts and those left
\* when it returns.  A listener that destroys the dispatcher does so while
\* the emit is in flight.
DispatcherEmit(h, name, data) ==
  LET dispatcher == handlers[h].eventsDispatcher
      e == emit(dispatcher.listeners, name, data)
      origin == Len(events) + 1
  IN /\ Len(events) < MaxEmits
     /\ events' = Append(events, [ handler |-> h, name |-> name, data |-> data,
                                   options |-> NoOptions, origin |-> origin,
                                   emitted |-> << [name |-> name, data |-> data] >>,
                                   registered |-> dispatcher.listeners,
                                   left |-> e.listeners ])
     /\ handlers' = [handlers EXCEPT
                        ![h].eventsDispatcher =
                           [ state |-> IF \E k \in 1..Len(e.delivered) :
                                            Destroys(e.delivered[k].fn)
                                       THEN "destroyed" ELSE @.state,
                             listeners |-> e.listeners ]]
     /\ received' = received \o Received(e.delivered, h, origin)
     /\ reported' = reported \o Reported(e.reported, h, "listener")
     /\ UNCHANGED <<registry, calls, links, queries, sessionData>>

\* The dispatcher of the root of one session: listeners subscribe, modules
\* emit, and callers send commands to the handler.
DispatcherNext ==
  \/ GetOrCreate("S1", "Root", RootContext)
  \/ \E h \in HandlerIds, name \in EventNames, fn \in ListenerFns \ {"late", "closer"} :
       DispatcherOn(h, name, fn)
  \/ \E h \in HandlerIds, name \in EventNames, data \in EventData :
       DispatcherEmit(h, name, data)
  \/ \E h \in HandlerIds, command \in Commands : Call(h, command)

DispatcherSpec == Init /\ [][DispatcherNext]_vars

\* handler.eventsDispatcher.destroy(), called outside of any emit.
DispatcherDestroy(h) ==
  /\ handlers[h].eventsDispatcher.state = "live"
  /\ handlers' = [handlers EXCEPT ![h].eventsDispatcher = EventsDispatcher_destroy(@)]
  /\ UNCHANGED <<registry, calls, links, events, received, reported, queries, sessionData>>

\* The listeners subscribed while the dispatcher is live, and the one
\* subscribed once it is destroyed: another function, so that a call tells
\* when its listener was registered.
Earlier == {"first", "closer", "second"}

Later == {"late"}

\* The end of a dispatcher: listeners subscribe, modules emit, and the
\* dispatcher is destroyed, by its handler's destroy(), by a direct call or
\* by a listener during an emit; then listeners subscribe again.
TeardownNext ==
  \/ GetOrCreate("S1", "Root", RootContext)
  \/ \E h \in HandlerIds, name \in EventNames :
       \E fn \in IF handlers[h].eventsDispatcher.state = "live" THEN Earlier ELSE Later :
         DispatcherOn(h, name, fn)
  \/ \E h \in HandlerIds, name \in EventNames, data \in EventData :
       DispatcherEmit(h, name, data)
  \/ \E h \in HandlerIds : DispatcherDestroy(h)
  \/ \E h \in HandlerIds : handlers[h].destroyed < MaxDestroys /\ Destroy(h)

TeardownSpec == Init /\ [][TeardownNext]_vars

(* ----------------------------- module cache ---------------------------- *)

\* The module cache of the root of one session: callers send commands, the
\* handler is destroyed, and the registry constructs the next one.
CacheNext ==
  \/ GetOrCreate("S1", "Root", RootContext)
  \/ \E h \in HandlerIds, command \in Commands : Call(h, command)
  \/ \E h \in HandlerIds : handlers[h].destroyed < MaxDestroys /\ Destroy(h)

CacheSpec == Init /\ [][CacheNext]_vars

(* --------------------------- settling calls ---------------------------- *)

\* The transport of a forwarded command goes on: it delivers the command,
\* it brings the answer back, or its link is destroyed.
Transport == \E i \in CallIds : Deliver(i) \/ Abort(i) \/ Respond(i)

\* The network of one session under a transport that does not stall: a
\* command in flight is delivered and answered, or is aborted.
SettlingNext ==
  \/ GetOrCreate("S1", "Root", RootContext)
  \/ \E h \in HandlerIds, command \in Commands : Call(h, command)
  \/ \E i \in CallIds : Deliver(i)
  \/ \E i \in CallIds : Abort(i)
  \/ \E i \in CallIds : Respond(i)

SettlingSpec ==
  Init /\ [][SettlingNext]_vars /\ WF_vars(Transport)

(* -------------------------- resolution order --------------------------- *)

\* The commands of the module "log": one that several classes support, one
\* that only the leaf's class supports.
LogCommands ==
  { [Command("entry", ToLeaf, FALSE) EXCEPT !.moduleName = "log"],
    [Command("rotate", ToLeaf, FALSE) EXCEPT !.moduleName = "log"] }

\* Callers send commands of "log" to the handlers of one session; what the
\* root does not invoke itself travels to the leaf.
OrderNext ==
  \/ GetOrCreate("S1", "Root", RootContext)
  \/ \E h \in HandlerIds, command \in LogCommands : Call(h, command)
  \/ \E i \in CallIds : Deliver(i)
  \/ \E i \in CallIds : Respond(i)

OrderSpec == Init /\ [][OrderNext]_vars

(* ---------------------------- failing calls ---------------------------- *)

\* Commands sent to a leaf: one that its instance of "log" supports, one
\* that a class of "log" supports but not the instance the leaf resolves,
\* and one that no class supports.
LeafCommands ==
  { [Command("entry", ToLeaf, FALSE) EXCEPT !.moduleName = "log"],
    [Command("clear", ToLeaf, FALSE) EXCEPT !.moduleName = "log"],
    Command("stop", ToLeaf, FALSE) }

\* The leaves of the sessions, which have no hop to forward to: the registry
\* constructs them, consumers subscribe to them and callers send them commands.
LeafNext ==
  \/ \E s \in Sessions, context \in LeafContexts : GetOrCreate(s, "Leaf", context)
  \/ \E h \in HandlerIds : On(h, "message-handler-destroyed", "first")
  \/ \E h \in HandlerIds, command \in LeafCommands : Call(h, command)

LeafSpec == Init /\ [][LeafNext]_vars

(* ---------------------------- destinations ----------------------------- *)

\* A descriptor matching several contexts.
AllContexts == [type |-> "All"]

\* The destinations a caller can write for a type: with an id, with a
\* contextDescriptor, with both and with neither.
DestinationShapes(type) ==
  { [type |-> type, id |-> "ctx-42"],
    [type |-> type, contextDescriptor |-> AllContexts],
    [type |-> type, id |-> "ctx-42", contextDescriptor |-> AllContexts],
    [type |-> type] }

\* A command the root invokes and one it forwards, with each destination.
ShapedCommands ==
  {Command("go", d, FALSE) : d \in DestinationShapes("Root") \cup DestinationShapes("Leaf")}

\* Callers send the root of one session commands with destinations of
\* every shape.
DestinationNext ==
  \/ GetOrCreate("S1", "Root", RootContext)
  \/ \E h \in HandlerIds, command \in ShapedCommands : Call(h, command)

DestinationSpec == Init /\ [][DestinationNext]_vars

(* ---------------------------- session data ----------------------------- *)

\* The items a session can hold, and how many.
SessionItems == {"pref-a", "pref-b"}

MaxItems == 2

\* The session gains a session data item.
AddSessionData(s, item) ==
  /\ Len(sessionData[s]) < MaxItems
  /\ sessionData' = [sessionData EXCEPT ![s] = Append(@, item)]
  /\ UNCHANGED <<handlers, registry, calls, links, events, received, reported, queries>>

\* One session gains items while the registry constructs its handlers,
\* the root on request and the leaf for a forwarded command.
SessionNext ==
  \/ \E item \in SessionItems : AddSessionData("S1", item)
  \/ GetOrCreate("S1", "Root", RootContext)
  \/ \E h \in HandlerIds, command \in Commands : Call(h, command)
  \/ \E i \in CallIds : Deliver(i)
  \/ \E i \in CallIds : Respond(i)

SessionSpec == Init /\ [][SessionNext]_vars

(* ------------------------------- queries ------------------------------- *)

\* The calls a consumer makes to ask what a handler supports.
MaxQueries == 2

ModuleNames == {"nav", "none"}

CommandNames == {"go", "stop"}

Destinations == {ToRoot, ToLeaf}

\* handler.getAllModuleClasses(moduleName, destination)
GetAllModuleClasses(h, moduleName, destination) ==
  LET q == getAllModuleClasses_call(handlers[h], moduleName, destination)
  IN /\ Len(queries) < MaxQueries
     /\ handlers' = [handlers EXCEPT ![h] = q.handler]
     /\ queries' = Append(queries, [ handler |-> h, op |-> "getAllModuleClasses",
                                     moduleName |-> moduleName, commandName |-> "",
                                     destination |-> destination, value |-> <<q.value>> ])
     /\ UNCHANGED <<registry, calls, links, events, received, reported, sessionData>>

\* handler.supportsCommand(moduleName, commandName, destination)
SupportsCommand(h, moduleName, commandName, destination) ==
  LET q == supportsCommand_call(handlers[h], moduleName, commandName, destination)
  IN /\ Len(queries) < MaxQueries
     /\ handlers' = [handlers EXCEPT ![h] = q.handler]
     /\ queries' = Append(queries, [ handler |-> h, op |-> "supportsCommand",
                                     moduleName |-> moduleName, commandName |-> commandName,
                                     destination |-> destination, value |-> <<q.value>> ])
     /\ UNCHANGED <<registry, calls, links, events, received, reported, sessionData>>

\* A consumer of the root of one session: it subscribes to the handler,
\* asks what the handler supports, and sends commands.
QueryNext ==
  \/ GetOrCreate("S1", "Root", RootContext)
  \/ \E h \in HandlerIds : On(h, "message-handler-destroyed", "first")
  \/ \E h \in HandlerIds, moduleName \in ModuleNames, destination \in Destinations :
       GetAllModuleClasses(h, moduleName, destination)
  \/ \E h \in HandlerIds, moduleName \in ModuleNames, commandName \in CommandNames,
          destination \in Destinations :
       SupportsCommand(h, moduleName, commandName, destination)
  \/ \E h \in HandlerIds, command \in Commands : Call(h, command)

QuerySpec == Init /\ [][QueryNext]_vars

(* ------------------------------ the chain ------------------------------ *)

\* Commands for the leaf: one that only the leaf's module supports, sent
\* again or not when the link aborts, and one that a module of the root
\* supports as well as the leaf's.
ChainCommands ==
  { Command("go", ToLeaf, TRUE), Command("go", ToLeaf, FALSE),
    [Command("entry", ToLeaf, TRUE) EXCEPT !.moduleName = "log"] }

\* The chain of hops of one session, root to leaf, under a transport that
\* does not stall: a command in flight is delivered and answered, or is
\* aborted.
ChainNext ==
  \/ GetOrCreate("S1", "Root", RootContext)
  \/ \E h \in HandlerIds, command \in ChainCommands : Call(h, command)
  \/ \E i \in CallIds : Deliver(i)
  \/ \E i \in CallIds : Abort(i)
  \/ \E i \in CallIds : Respond(i)

ChainSpec ==
  Init /\ [][ChainNext]_vars /\ WF_vars(Transport)

(* ------------------------------ identity ------------------------------- *)

\* Everything that is done with the handlers of one session: the registry
\* constructs them and hands them the session data, a caller sends the root
\* a command, which it forwards to the leaf, the modules of the leaf emit
\* events, which travel up to the root, and handlers are destroyed.
IdentityNext ==
  \/ AddSessionData("S1", "pref-a")
  \/ GetOrCreate("S1", "Root", RootContext)
  \/ \E h \in HandlerIds :
       /\ handlers[h].type = "Root" /\ calls = <<>>
       /\ Call(h, Command("go", ToLeaf, FALSE))
  \/ \E i \in CallIds : Deliver(i)
  \/ \E i \in CallIds : Respond(i)
  \/ \E h \in HandlerIds, event \in EventNames, data \in EventData :
       handlers[h].type = "Leaf" /\ EmitEvent(h, event, data, NoOptions)
  \/ \E m \in 1..Len(links) : Bubble(m)
  \/ \E h \in HandlerIds : handlers[h].destroyed < MaxDestroys /\ Destroy(h)

IdentitySpec == Init /\ [][IdentityNext]_vars

(* ------------------------ destroyed notification ---------------------- *)

\* The end of a handler in use: while it is live, listeners subscribe to its
\* dispatcher, modules emit, callers send commands and an observer listens
\* for the destroyed notification; then the handler is destroyed.
NotifyNext ==
  \/ GetOrCreate("S1", "Root", RootContext)
  \/ \E h \in HandlerIds :
       handlers[h].destroyed = 0 /\ On(h, "message-handler-destroyed", "first")
  \/ \E h \in HandlerIds, name \in EventNames :
       handlers[h].destroyed = 0 /\ DispatcherOn(h, name, "second")
  \/ \E h \in HandlerIds, name \in EventNames, data \in EventData :
       handlers[h].destroyed = 0 /\ DispatcherEmit(h, name, data)
  \/ \E h \in HandlerIds :
       handlers[h].destroyed = 0 /\ Call(h, Command("go", ToRoot, FALSE))
  \/ \E h \in HandlerIds : handlers[h].destroyed < MaxDestroys /\ Destroy(h)

NotifySpec == Init /\ [][NotifyNext]_vars

(* ------------------------- context descriptors ------------------------ *)

ContextDescriptorType == [All |-> "All", TopBrowsingContext |-> "TopBrowsingContext"]

\* The descriptors a caller can write: every context, with and without an
\* id, and one top browsing context.
ContextDescriptors ==
  { [type |-> ContextDescriptorType.All],
    [type |-> ContextDescriptorType.All, id |-> "all"],
    [type |-> ContextDescriptorType.TopBrowsingContext, id |-> "ctx-42"],
    [type |-> ContextDescriptorType.TopBrowsingContext, id |-> "ctx-7"] }

\* The concrete contexts descriptors are matched against.
ConcreteContexts == {RootContext, [id |-> "ctx-7", gen |-> 0]} \cup LeafContexts

\* A matchContext that compares ids whatever the type of the descriptor.
matchContext_byId(descriptor, context) ==
  "id" \in DOMAIN descriptor /\ descriptor.id = context.id

\* matchContext: a descriptor of type All matches every context, one of a
\* specific context matches the context of its id.
matchContext(descriptor, context) ==
  IF descriptor.type = ContextDescriptorType.All
  THEN TRUE
  ELSE "id" \in DOMAIN descriptor /\ descriptor.id = context.id

\* matchContext(descriptor, context), called by whoever broadcasts.
MatchContext(descriptor, context) ==
  /\ Len(queries) < MaxQueries
  /\ queries' = Append(queries, [ op |-> "matchContext", descriptor |-> descriptor,
                                  context |-> context,
                                  value |-> <<matchContext(descriptor, context)>> ])
  /\ UNCHANGED <<handlers, registry, calls, links, events, received, reported, sessionData>>

MatchNext ==
  \E descriptor \in ContextDescriptors, context \in ConcreteContexts :
    MatchContext(descriptor, context)

MatchSpec == Init /\ [][MatchNext]_vars

(* -------------------------------- claims ------------------------------- *)

\* Every handleCommand call made so far: those of external callers and
\* those of the hops the commands were forwarded to.
AllFrames ==
  {calls[i] : i \in CallIds} \cup {calls[i].hop : i \in {k \in CallIds : calls[k].hop # NoHop}}

\* Some class resolved for the command's module and destination supports it.
SomeClassSupports(f) ==
  LET classes == getAllModuleClasses(handlers[f.handler], f.command.moduleName,
                                     f.command.destination)
  IN \E k \in 1..Len(classes) : f.command.commandName \in classes[k].methods

\* The handler's own instance for the module and destination supports it.
LocalInstanceSupports(f) ==
  LET class == ResolveClass(handlers[f.handler], f.command.moduleName,
                            f.command.destination)
  IN class # 0 /\ f.command.commandName \in ModuleClasses[class].methods

\* C1: when no module class resolved for (moduleName, destination) supports
\* commandName, handleCommand fails with UnsupportedCommandError, invokes no
\* module method and does not call forwardCommand.
C1_Unsupported ==
  \A f \in AllFrames :
    ~SomeClassSupports(f) =>
      /\ f.state = "done"
      /\ f.outcome = UnsupportedCommandError(f.command.moduleName,
                                             f.command.commandName, f.command.destination)
      /\ f.invoked = <<>>
      /\ f.forwarded = <<>>

C1_Witness ==
  \E f \in AllFrames :
    /\ ~SomeClassSupports(f)
    /\ f.state = "done"
    /\ f.outcome.kind = "error" /\ f.outcome.name = "UnsupportedCommandError"

\* C2: when the handler's local module instance supports commandName,
\* handleCommand invokes that instance's method exactly once with
\* (params, destination), settles with the method's result or error
\* unchanged, and does not call forwardCommand.
C2_LocalInvoke ==
  \A f \in AllFrames :
    LocalInstanceSupports(f) =>
      /\ Len(f.invoked) = 1
      /\ f.invoked[1].call.module.class =
           ResolveClass(handlers[f.handler], f.command.moduleName, f.command.destination)
      /\ f.invoked[1].call.method = f.command.commandName
      /\ f.invoked[1].call.args = <<f.command.params, f.command.destination>>
      /\ f.forwarded = <<>>
      /\ f.state = "done"
      /\ f.outcome = f.invoked[1].outcome

C2_Witness ==
  /\ \E f \in AllFrames :
       /\ LocalInstanceSupports(f)
       /\ f.outcome.kind = "error" /\ f.outcome.name = "ModuleExecutionError"
  /\ \E f \in AllFrames : LocalInstanceSupports(f) /\ f.outcome.kind = "value"

\* What forwardCommand answered, for a call that forwarded and is settled.
ForwardOutcome(f) ==
  IF ~HasNextHop(handlers[f.handler].type) THEN NotImplementedError
  ELSE IF f.hop # NoHop THEN f.hop.outcome
  ELSE AbortError

\* C3: when some resolved class supports commandName but the local instance
\* is absent or does not support it, handleCommand calls forwardCommand
\* exactly once, with the command unmodified, and settles with
\* forwardCommand's outcome.
C3_Forward ==
  \A f \in AllFrames :
    (SomeClassSupports(f) /\ ~LocalInstanceSupports(f)) =>
      /\ f.forwarded = <<f.command>>
      /\ f.invoked = <<>>
      /\ f.state = "done" => f.outcome = ForwardOutcome(f)

C3_Witness ==
  \E i \in CallIds :
    /\ SomeClassSupports(calls[i]) /\ ~LocalInstanceSupports(calls[i])
    /\ calls[i].state = "done"
    /\ calls[i].hop # NoHop
    /\ calls[i].outcome.kind = "value"

\* A call that reached forwardCommand on a handler with no further hop.
BaseForwarded(f) ==
  /\ SomeClassSupports(f) /\ ~LocalInstanceSupports(f)
  /\ ~HasNextHop(handlers[f.handler].type)

Live(h) == handlers[h].destroyed = 0

Identity(h) == <<handlers[h].sessionId, handlers[h].type, handlers[h].contextId>>

\* C5: in every reachable state at most one live handler exists for each
\* identity (sessionId, type, contextId), and the registry holds at most one
\* handler for it.
C5_OneLivePerIdentity ==
  /\ \A h1, h2 \in HandlerIds :
       (Live(h1) /\ Live(h2) /\ Identity(h1) = Identity(h2)) => h1 = h2
  /\ \A h1, h2 \in registry : Identity(h1) = Identity(h2) => h1 = h2

C5_Witness ==
  \E h1, h2 \in HandlerIds :
    /\ Identity(h1) = Identity(h2)
    /\ ~Live(h1) /\ Live(h2) /\ h2 \in registry
    /\ \E h3 \in HandlerIds \ {h2} : Live(h3)

\* The calls whose command has reached a handler of the next hop.
Hopped == {i \in CallIds : calls[i].hop # NoHop}

\* The identity a forwarded command asks the registry for.
Requested(i) ==
  << handlers[calls[i].handler].sessionId, NextType(handlers[calls[i].handler].type),
     calls[i].forwarded[1].destination.id >>

\* C6: creation requests for one identity that interleave, such as two
\* commands forwarded at once towards a hop that does not exist yet, obtain
\* the same instance, which is registered, carries the identity asked for
\* and was constructed by exactly one of them.
C6_ConcurrentCreation ==
  \A i, j \in Hopped :
    LET hi == calls[i].hop.handler
        hj == calls[j].hop.handler
    IN /\ Identity(hi) = Requested(i)
       /\ Live(hi) => hi \in registry
       /\ (Requested(i) = Requested(j) /\ Live(hi) /\ Live(hj)) => hi = hj
       /\ (i # j /\ hi = hj) => ~(calls[i].hop.constructed /\ calls[j].hop.constructed)

\* The later of two commands in flight is delivered first and constructs
\* the hop; the earlier one, sent before the hop existed, obtains it too.
C6_Witness ==
  /\ Len(calls) = 2
  /\ calls[1].attempts = 1 /\ calls[2].attempts = 1
  /\ calls[1].hop # NoHop /\ calls[2].hop # NoHop
  /\ calls[2].hop.constructed /\ ~calls[1].hop.constructed
  /\ calls[1].hop.handler = calls[2].hop.handler
  /\ Live(calls[1].hop.handler)

\* C7: getOrCreate called twice for one (sessionId, type, context), with no
\* destroy in between, returns the same instance both times, and the second
\* call constructs nothing and leaves the registry as the first left it.
C7_GetOrCreateTwice ==
  \A s \in Sessions, t \in TypeSet :
    \A c1, c2 \in ContextsOf(t) :
      getIdFromContext(t, c1) = getIdFromContext(t, c2) =>
        LET r1 == getOrCreate(handlers, registry, s, t, c1)
            r2 == getOrCreate(r1.handlers, r1.registry, s, t, c2)
        IN /\ r2.handler = r1.handler
           /\ ~r2.constructed
           /\ r2.handlers = r1.handlers
           /\ r2.registry = r1.registry

\* A state in which getOrCreate finds a handler for one identity and
\* constructs one for another, a hop having been obtained both ways.
C7_Witness ==
  /\ \E s \in Sessions, t \in TypeSet : \E c \in ContextsOf(t) :
       getOrCreate(handlers, registry, s, t, c).constructed
  /\ \E s \in Sessions, t \in TypeSet : \E c \in ContextsOf(t) :
       ~getOrCreate(handlers, registry, s, t, c).constructed
  /\ \E i \in Hopped : ~calls[i].hop.constructed /\ calls[i].hop.handler \in registry

\* The calls that forwarded their command over a transport.
Sent == {i \in CallIds : calls[i].forwarded # <<>> /\ HasNextHop(handlers[calls[i].handler].type)}

\* C8: a forwarded command with retryOnAbort = true whose first attempt is
\* aborted is sent again to the hop the registry then gives; it fails with
\* the abort only after the second attempt, and when the second attempt is
\* answered the caller receives that answer.
C8_RetryOnAbort ==
  \A i \in Sent :
    LET f == calls[i]
    IN f.command.retryOnAbort =>
         /\ (f.state = "done" /\ f.hop = NoHop) => f.attempts = 2
         /\ (f.state = "done" /\ f.hop # NoHop) => f.outcome = f.hop.outcome
         /\ (f.hop # NoHop /\ Live(f.hop.handler)) => f.hop.handler \in registry

C8_Witness ==
  \E i \in Sent :
    /\ calls[i].command.retryOnAbort
    /\ calls[i].attempts = 2
    /\ calls[i].state = "done"
    /\ calls[i].outcome.kind = "value"
    /\ calls[i].hop.constructed

\* C9: a forwarding handler sends one forwarded command at most twice, and
\* when the second attempt is aborted too the caller receives the abort as
\* the failure of its call.
C9_AtMostOneRetry ==
  \A i \in CallIds :
    LET f == calls[i]
    IN /\ f.attempts <= 2
       /\ (i \in Sent /\ f.state = "done" /\ f.attempts = 2 /\ f.hop = NoHop)
            => f.outcome = AbortError

C9_Witness ==
  \E i \in Sent :
    /\ calls[i].state = "done"
    /\ calls[i].attempts = 2
    /\ calls[i].hop = NoHop
    /\ calls[i].outcome = AbortError

\* C10: a forwarded command with retryOnAbort = false is sent exactly once,
\* and when the transport aborts the caller receives the abort as the
\* failure of its call.
C10_NoRetry ==
  \A i \in Sent :
    LET f == calls[i]
    IN ~f.command.retryOnAbort =>
         /\ f.attempts = 1
         /\ (f.state = "done" /\ f.hop = NoHop) => f.outcome = AbortError

C10_Witness ==
  \E i \in Sent :
    /\ ~calls[i].command.retryOnAbort
    /\ calls[i].state = "done"
    /\ calls[i].attempts = 1
    /\ calls[i].hop = NoHop
    /\ calls[i].outcome = AbortError

\* A command to retry on abort that fails otherwise than by an abort: it is
\* not sent at all when the failure is local, and the caller receives the
\* failure of the handler, the module or the hop as it is.
FailsUnchanged ==
  \A i \in CallIds :
    LET f == calls[i]
    IN f.command.retryOnAbort =>
         /\ ~SomeClassSupports(f) =>
              /\ f.state = "done" /\ f.attempts = 0
              /\ f.outcome = UnsupportedCommandError(f.command.moduleName,
                                                     f.command.commandName,
                                                     f.command.destination)
         /\ BaseForwarded(f) =>
              f.state = "done" /\ f.attempts = 0 /\ f.outcome = NotImplementedError
         /\ LocalInstanceSupports(f) =>
              f.state = "done" /\ f.attempts = 0 /\ f.outcome = f.invoked[1].outcome
         /\ (f.state = "done" /\ f.hop # NoHop) => f.outcome = f.hop.outcome

Notified(h, fn) ==
  Cardinality({k \in 1..Len(received) :
                 /\ received[k].handler = h
                 /\ received[k].fn = fn
                 /\ received[k].name = "message-handler-destroyed"})

\* C12: destroy() called twice on one handler produces no error, and the
\* destroyed notification is emitted once: no listener is told twice.
C12_DestroyTwice ==
  \A h \in HandlerIds :
    (handlers[h].eventsDispatcher # UndefinedField /\ DestroyCalls(h) = 2) =>
      /\ \A k \in 1..Len(reported) :
           ~(reported[k].handler = h /\ reported[k].op = "destroy")
      /\ \A fn \in ListenerFns : Notified(h, fn) <= 1

\* C13: destroy() called on a handler whose constructor threw between the
\* creation of the ModuleCache and that of the EventsDispatcher completes
\* without an error.
C13_DestroyPartial ==
  \A h \in HandlerIds :
    handlers[h].eventsDispatcher = UndefinedField =>
      \A k \in 1..Len(reported) :
        ~(reported[k].handler = h /\ reported[k].op = "destroy")

\* C14: a destroyed handler is forgotten by the registry: get for its
\* identity returns null, or the live handler constructed for the identity
\* since, and getOrCreate for the identity does not return the destroyed
\* handler: it constructs a new one unless one was constructed since.
C14_Forgotten ==
  \A h \in HandlerIds :
    ~Live(h) =>
      LET found == get(handlers, registry, handlers[h].sessionId, handlers[h].type,
                       handlers[h].contextId)
          again == getOrCreate(handlers, registry, handlers[h].sessionId,
                               handlers[h].type, handlers[h].context)
      IN /\ h \notin registry
         /\ found # h
         /\ found # 0 => (found > h /\ Live(found))
         /\ again.handler # h
         /\ again.handlers[again.handler].destroyed = 0
         /\ again.constructed <=> found = 0

\* A root and a leaf were destroyed: get returns null for both identities
\* and getOrCreate would construct; the root of the other session stays.
C14_Witness ==
  /\ \E h \in HandlerIds :
       /\ ~Live(h) /\ handlers[h].type = "Leaf"
       /\ get(handlers, registry, handlers[h].sessionId, "Leaf", handlers[h].contextId) = 0
       /\ getOrCreate(handlers, registry, handlers[h].sessionId, "Leaf",
                      handlers[h].context).constructed
  /\ \E h \in HandlerIds :
       /\ ~Live(h) /\ handlers[h].type = "Root"
       /\ get(handlers, registry, handlers[h].sessionId, "Root", handlers[h].contextId) = 0
  /\ registry # {}

\* isProtocolEvent as the caller of emitEvent gave it: false when the caller
\* gave none.
AsGiven(options) == \E o \in options : o.key = "isProtocolEvent" /\ o.value

\* The envelope of the k-th emitEvent call.
Envelope(k) ==
  [ name |-> events[k].name,
    data |-> events[k].data,
    isProtocolEvent |-> AsGiven(events[k].options),
    sessionId |-> handlers[events[k].handler].sessionId ]

\* The calls of listener fn of handler h for name that stem from call k.
Heard(h, fn, name, k) ==
  {i \in 1..Len(received) :
     /\ received[i].handler = h /\ received[i].fn = fn
     /\ received[i].name = name /\ received[i].origin = k}

RootOf(h) == get(handlers, registry, handlers[h].sessionId, "Root", "root")

InFlight(k) == \E m \in 1..Len(links) : links[m].origin = k

\* C15: an event emitted once on a handler below the root, three hops
\* below for the leaf, reaches the envelope listener of the root of its
\* session at most once, exactly once when no envelope of it is in flight
\* any more, with the name, data, isProtocolEvent and sessionId of the
\* emitEvent call; no handler of another session hears of it.
C15_Bubbling ==
  \A k \in Calls :
    LET h == events[k].handler
        heard == Heard(RootOf(h), "first", "message-handler-event", k)
    IN handlers[h].type # "Root" =>
         /\ Cardinality(heard) <= 1
         /\ ~InFlight(k) => Cardinality(heard) = 1
         /\ \A i \in heard : received[i].data = Envelope(k)
         /\ \A i \in 1..Len(received) :
              received[i].origin = k =>
                handlers[received[i].handler].sessionId = handlers[h].sessionId

\* A protocol event and an internal event of the leaf, three hops below the
\* root, have both reached the listener of the root.
C15_Witness ==
  /\ links = <<>>
  /\ \E k \in Calls :
       /\ handlers[events[k].handler].type = "Leaf"
       /\ AsGiven(events[k].options)
       /\ Cardinality(Heard(RootOf(events[k].handler), "first",
                            "message-handler-event", k)) = 1
  /\ \E k \in Calls :
       /\ handlers[events[k].handler].type = "Leaf"
       /\ events[k].options = NoOptions
       /\ \E i \in Heard(RootOf(events[k].handler), "first", "message-handler-event", k) :
            received[i].data.sessionId = "S1" /\ ~received[i].data.isProtocolEvent

\* The listeners of a handler for a name, as registered.
ListenersOf(h, name) == Snapshot(handlers[h].listeners, name)

\* C16: every emitEvent call emits one envelope {name, data,
\* isProtocolEvent, sessionId} under "message-handler-event", with the
\* sessionId of the handler it is called on and isProtocolEvent false when
\* the caller gives no option; each envelope listener of the handler is
\* called once with it.
C16_Envelope ==
  \A k \in 1..Len(events) :
    LET e == events[k]
        envelopes == SelectSeq(e.emitted, LAMBDA x : x.name = "message-handler-event")
        listening == ListenersOf(e.handler, "message-handler-event")
    IN /\ Len(envelopes) = 1
       /\ envelopes[1].data = Envelope(k)
       /\ envelopes[1].data.sessionId = handlers[e.handler].sessionId
       /\ e.options = NoOptions => ~envelopes[1].data.isProtocolEvent
       /\ \A l \in 1..Len(listening) :
            LET heard == Heard(e.handler, listening[l].fn, "message-handler-event", e.origin)
            IN Cardinality(heard) = 1 /\ \A i \in heard : received[i].data = Envelope(k)

\* The leaf has emitted an event without options and a protocol event, in
\* session S1; the root of session S2 has emitted one too.
C16_Witness ==
  /\ \E k \in Calls :
       /\ handlers[events[k].handler].type = "Leaf"
       /\ events[k].options = NoOptions
       /\ Heard(events[k].handler, "first", "message-handler-event", k) # {}
  /\ \E k \in Calls :
       handlers[events[k].handler].sessionId = "S2" /\ AsGiven(events[k].options)

\* C17: emitEvent emits the event again under its own name, with the bare
\* data, exactly when it is not a protocol event: the listeners of the
\* handler for that name are then called once with the data, and no call of
\* a listener for the bare name stems from a protocol event.
C17_BareName ==
  /\ \A k \in 1..Len(events) :
       LET e == events[k]
           bare == SelectSeq(e.emitted, LAMBDA x : x.name = e.name)
           listening == ListenersOf(e.handler, e.name)
       IN /\ bare = IF AsGiven(e.options) THEN <<>>
                    ELSE << [name |-> e.name, data |-> e.data] >>
          /\ \A l \in 1..Len(listening) :
               Cardinality(Heard(e.handler, listening[l].fn, e.name, e.origin))
                 = IF AsGiven(e.options) THEN 0 ELSE 1
  /\ \A i \in 1..Len(received) :
       received[i].name \in EventNames =>
         /\ ~AsGiven(events[received[i].origin].options)
         /\ received[i].data = events[received[i].origin].data

\* The leaf has emitted a protocol event and an internal event; both have
\* reached the root, whose bare-name listener heard of the internal one.
C17_Witness ==
  /\ links = <<>>
  /\ \E k \in Calls :
       /\ handlers[events[k].handler].type = "Leaf" /\ AsGiven(events[k].options)
       /\ Heard(events[k].handler, "second", events[k].name, k) = {}
       /\ Heard(events[k].handler, "first", "message-handler-event", k) # {}
  /\ \E k \in Calls :
       /\ handlers[events[k].handler].type = "Leaf" /\ ~AsGiven(events[k].options)
       /\ Heard(RootOf(events[k].handler), "second", events[k].name, k) # {}

HeardOf(k) == SelectSeq(received, LAMBDA r : r.origin = k)

\* What a handleCommand call did is what handleCommand does on a handler of
\* the same identity that never emitted anything.
AsOnFresh(f) ==
  LET me == handlers[f.handler]
      plan == handleCommand(MessageHandler(me.type, me.sessionId, me.context), f.command)
  IN /\ f.forwarded = plan.forward
     /\ f.returns = plan.returns
     /\ Len(f.invoked) = Len(plan.invoke)
     /\ \A k \in 1..Len(plan.invoke) :
          f.invoked[k].call =
            [plan.invoke[k] EXCEPT !.module.serial = f.invoked[k].call.module.serial]
     /\ plan.throw # <<>> => f.outcome = plan.throw[1]
     /\ plan.returns = "invoke" => f.outcome = f.invoked[1].outcome

\* C19: an emit of the dispatcher calls the listeners registered for the
\* name when it starts, all of them, in registration order, also those
\* registered after a listener that throws; what a listener throws is
\* reported, and the handleCommand calls of the handler do what they do on
\* a handler whose listeners never threw.
C19_Isolation ==
  /\ \A k \in 1..Len(events) :
       LET e == events[k]
           expected == Snapshot(e.registered, e.name)
           heard == HeardOf(k)
       IN /\ Len(heard) = Len(expected)
          /\ \A l \in 1..Len(expected) :
               /\ heard[l].fn = expected[l].fn
               /\ heard[l].handler = e.handler
               /\ heard[l].name = e.name /\ heard[l].data = e.data
               /\ Throws(expected[l].fn) =>
                    \E r \in 1..Len(reported) :
                      /\ reported[r].handler = e.handler
                      /\ reported[r].error = ListenerError(expected[l].fn)
  /\ \A i \in CallIds : AsOnFresh(calls[i])

\* The listener that throws was registered between two others; all three
\* were called, and a command sent to the handler afterwards was executed
\* by its module.
C19_Witness ==
  /\ \E k \in 1..Len(events) :
       LET heard == HeardOf(k)
       IN Len(heard) = 3 /\ Throws(heard[2].fn) /\ ~Throws(heard[3].fn)
  /\ \E r \in 1..Len(reported) :
       /\ reported[r].calls < Len(calls)
       /\ LET f == calls[reported[r].calls + 1]
          IN /\ f.handler = reported[r].handler
             /\ f.state = "done" /\ f.outcome.kind = "value"

\* C20: a listener subscribed from within a listener callback is not called
\* for the emit in progress, and a listener unsubscribed from within a
\* callback that was registered when the emit started is still called for
\* it: the emit calls the listeners captured at its start.  The change is
\* there when the emit returns, for the emits that follow.
C20_Snapshot ==
  \A k \in 1..Len(events) :
    LET e == events[k]
        expected == Snapshot(e.registered, e.name)
        heard == HeardOf(k)
        Registered(listeners, fn) ==
          \E l \in 1..Len(listeners) : listeners[l] = [name |-> e.name, fn |-> fn]
        Heard_(fn) == \E l \in 1..Len(heard) : heard[l].fn = fn
    IN /\ \A fn \in ListenerFns : Heard_(fn) <=> Registered(e.registered, fn)
       /\ \A fn \in ListenerFns :
            Registered(e.registered, fn) =>
              /\ Subscribes(fn) # <<>> => Registered(e.left, Subscribes(fn)[1])
              /\ Unsubscribes(fn) # <<>> => ~Registered(e.left, Unsubscribes(fn)[1])

\* A first emit called "remover", then "second", which it had unsubscribed,
\* then "adder", but not "late", which that subscribed; the next emit called
\* "late" and no longer "second".
C20_Witness ==
  /\ Len(events) = 2
  /\ events[1].handler = events[2].handler
  /\ LET one == HeardOf(1)
         two == HeardOf(2)
     IN /\ Len(one) = 3
        /\ one[1].fn = "remover" /\ one[2].fn = "second" /\ one[3].fn = "adder"
        /\ Len(two) = 3
        /\ two[1].fn = "remover" /\ two[2].fn = "adder" /\ two[3].fn = "late"

\* The functions called, in the order of the calls.
Fns(heard) == [l \in 1..Len(heard) |-> heard[l].fn]

\* C21: once a dispatcher is destroyed, no emit on it calls a listener that
\* was registered before the destroy; an emit in flight when the dispatcher
\* is destroyed still calls every listener it captured when it started, the
\* ones after the destroying listener included.
C21_AfterDestroy ==
  /\ [](\A k \in 1..Len(events) :
          Fns(HeardOf(k)) = Fns(Snapshot(events[k].registered, events[k].name)))
  /\ [][\A h \in HandlerIds :
          handlers[h].eventsDispatcher.state = "destroyed" =>
            \A k \in (Len(received) + 1)..Len(received') :
              received'[k].handler = h => received'[k].fn \notin Earlier]_vars

\* An emit called "first", then "closer", which destroyed the dispatcher,
\* then "second" all the same; "late" subscribed afterwards, and the next
\* emit called "late" alone.
C21_Witness ==
  /\ Len(events) = 2
  /\ events[1].handler = events[2].handler
  /\ handlers[events[1].handler].eventsDispatcher.state = "destroyed"
  /\ Fns(HeardOf(1)) = <<"first", "closer", "second">>
  /\ Fns(HeardOf(2)) = <<"late">>

\* The key of an instance in the module cache.
Key(module) == <<module.moduleName, module.destination>>

\* The instances the handleCommand calls of a handler invoked.
InvokedOn(h) ==
  {f.invoked[1].call.module : f \in {g \in AllFrames : g.handler = h /\ g.invoked # <<>>}}

\* C22: in a live handler the module cache holds one instance per
\* (moduleName, destination) key, each made by one construction, and the
\* handleCommand calls of the handler that invoke a module of one key all
\* invoke that one instance.
C22_OneInstancePerKey ==
  \A h \in HandlerIds :
    Live(h) =>
      /\ \A m, n \in handlers[h].modules : Key(m) = Key(n) => m = n
      /\ {m.serial : m \in handlers[h].modules} = 1..Cardinality(handlers[h].modules)
      /\ InvokedOn(h) \subseteq handlers[h].modules

\* Two calls on one live handler invoked a module of the same key: the
\* second call was given the instance the first call had constructed.
C22_Witness ==
  /\ Len(calls) = 2
  /\ calls[1].handler = calls[2].handler
  /\ Live(calls[1].handler)
  /\ calls[1].invoked # <<>> /\ calls[2].invoked # <<>>
  /\ Key(calls[1].invoked[1].call.module) = Key(calls[2].invoked[1].call.module)
  /\ calls[1].invoked[1].call.module = calls[2].invoked[1].call.module
  /\ Cardinality(handlers[calls[1].handler].modules) = 1

\* C23: a getAllModuleClasses or supportsCommand call constructs no module
\* instance and leaves every handler as it was: its cached instances, the
\* instances it released and its listeners.
C23_PureQueries ==
  [][Len(queries') > Len(queries) =>
       /\ Len(handlers') = Len(handlers)
       /\ \A h \in HandlerIds :
            /\ handlers'[h].modules = handlers[h].modules
            /\ handlers'[h].released = handlers[h].released
            /\ handlers'[h].listeners = handlers[h].listeners
            /\ handlers'[h].eventsDispatcher = handlers[h].eventsDispatcher]_vars

\* A handler with a listener was asked for the classes of a module and
\* whether it supports a command; it answered with classes and with true,
\* and its module cache is still empty.
C23_Witness ==
  /\ Len(queries) = 2
  /\ queries[1].handler = queries[2].handler
  /\ LET me == handlers[queries[1].handler]
     IN /\ me.listeners # <<>>
        /\ me.modules = {} /\ me.released = {}
  /\ \E k \in 1..2 : queries[k].op = "getAllModuleClasses" /\ queries[k].value[1] # <<>>
  /\ \E k \in 1..2 : queries[k].op = "supportsCommand" /\ queries[k].value[1] = TRUE

\* The classes of the module registry that a supportsCommand call is about.
ClassesOf(q) == getAllModuleClasses(handlers[q.handler], q.moduleName, q.destination)

\* C25: supportsCommand answers true exactly when one of the classes that
\* getAllModuleClasses returns for (moduleName, destination) declares the
\* command; when no class is returned it answers false.
C25_SupportsCommand ==
  \A k \in 1..Len(queries) :
    LET q == queries[k]
    IN q.op = "supportsCommand" =>
         /\ q.value[1] = (\E c \in 1..Len(ClassesOf(q)) : q.commandName \in ClassesOf(q)[c].methods)
         /\ ClassesOf(q) = <<>> => q.value[1] = FALSE

\* One call was answered true, and one about a module without classes was
\* answered false.
C25_Witness ==
  /\ \E k \in 1..Len(queries) :
       /\ queries[k].op = "supportsCommand"
       /\ ClassesOf(queries[k]) # <<>>
       /\ queries[k].value[1] = TRUE
  /\ \E k \in 1..Len(queries) :
       /\ queries[k].op = "supportsCommand"
       /\ ClassesOf(queries[k]) = <<>>
       /\ queries[k].value[1] = FALSE

\* C24: a destroy() that returns leaves no instance in the handler's module
\* cache, and every instance that was cached has been destroyed.
C24_ModulesDestroyed ==
  [][\A h \in HandlerIds :
       handlers'[h].destroyed > handlers[h].destroyed =>
         /\ handlers'[h].modules = {}
         /\ handlers[h].modules \subseteq handlers'[h].released]_vars

\* A handler whose call had invoked a module instance was destroyed: the
\* instance is destroyed and the cache is empty.
C24_Witness ==
  \E h \in HandlerIds :
    /\ handlers[h].destroyed = 1
    /\ handlers[h].modules = {}
    /\ InvokedOn(h) # {}
    /\ InvokedOn(h) \subseteq handlers[h].released

\* The classes that getAllModuleClasses returns for a call and that declare
\* its command, and the classes the call's handler can instantiate for the
\* call's module and destination, both by their place in the registry.
Supporting(f) ==
  {c \in 1..Len(ModuleClasses) :
     /\ \E k \in 1..Len(ClassesOf([handler |-> f.handler,
                                   moduleName |-> f.command.moduleName,
                                   destination |-> f.command.destination])) :
          ClassesOf([handler |-> f.handler, moduleName |-> f.command.moduleName,
                     destination |-> f.command.destination])[k] = ModuleClasses[c]
     /\ f.command.commandName \in ModuleClasses[c].methods}

Local(f) ==
  {c \in 1..Len(ModuleClasses) :
     /\ ModuleClasses[c].moduleName = f.command.moduleName
     /\ ModuleClasses[c].runsIn = handlers[f.handler].type
     /\ ModuleClasses[c].dest = f.command.destination.type}

FailedHere(f) ==
  \/ f.returns = "throw"
  \/ f.invoked # <<>> /\ IsFailure(f.invoked[1].outcome)
  \/ f.forwarded # <<>> /\ ~HasNextHop(handlers[f.handler].type)

\* A hop of a settled call failed: its own handler or the one the command
\* was forwarded to, or the link, destroyed without the command being sent
\* again.
HopFailed(f) ==
  \/ FailedHere(f)
  \/ f.hop # NoHop /\ FailedHere(f.hop)
  \/ f.forwarded # <<>> /\ HasNextHop(handlers[f.handler].type) /\ f.hop = NoHop

\* C27: every handleCommand call settles, with one outcome that then stays:
\* from some point on every call made is settled; when a hop of its chain
\* failed, the outcome of a call is a failure.
C27_NoSwallow ==
  /\ [](\A i \in CallIds :
          calls[i].state = "done" =>
            /\ calls[i].outcome # NoOutcome
            /\ HopFailed(calls[i]) => IsFailure(calls[i].outcome))
  /\ [][\A i \in CallIds : calls[i].state = "done" => calls'[i] = calls[i]]_vars
  /\ <>[](\A i \in CallIds : calls[i].state = "done")

\* One call was answered by a hop whose module failed and settled with
\* that failure; another lost its link and settled with the abort.
C27_Witness ==
  /\ \E i \in CallIds :
       /\ calls[i].state = "done"
       /\ calls[i].hop # NoHop
       /\ calls[i].hop.invoked # <<>>
       /\ IsFailure(calls[i].hop.outcome)
       /\ calls[i].outcome = calls[i].hop.outcome
  /\ \E i \in CallIds :
       /\ calls[i].state = "done"
       /\ calls[i].forwarded # <<>>
       /\ calls[i].hop = NoHop
       /\ calls[i].outcome = AbortError

\* C28, as stated: a handleCommand call that fails with
\* UnsupportedCommandError or because forwardCommand has no hop leaves the
\* handler as it was: identity, listeners and cached module instances.
C28_FailsUnchanged ==
  [][Len(calls') > Len(calls) =>
       LET f == calls'[Len(calls')]
       IN (f.state = "done" /\ IsFailure(f.outcome) /\ f.invoked = <<>>) =>
            handlers'[f.handler] = handlers[f.handler]]_vars

\* The destination names its contexts in one way: by id or by descriptor.
ExactlyOne(destination) ==
  ("id" \in DOMAIN destination) # ("contextDescriptor" \in DOMAIN destination)

\* C29, as stated: a command that handleCommand dispatches to a module or
\* hands to forwardCommand has a destination with exactly one of id and
\* contextDescriptor.
C29_ExactlyOne ==
  \A i \in CallIds :
    (calls[i].invoked # <<>> \/ calls[i].forwarded # <<>>) =>
      ExactlyOne(calls[i].command.destination)

\* C30: a handler the registry constructs is handed the session data items
\* its session held before the construction, in one call of
\* applyInitialSessionDataItems that is never made again; a handler that is
\* given a command, by a caller or by the transport, has had that call.
C30_AppliedOnce ==
  [][ /\ \A h \in HandlerIds : handlers'[h].applied = handlers[h].applied
      /\ \A h \in (Len(handlers) + 1)..Len(handlers') :
           h \in registry' =>
             handlers'[h].applied = << sessionData[handlers'[h].sessionId] >>
      /\ Len(calls') > Len(calls) =>
           Len(handlers[calls'[Len(calls')].handler].applied) = 1
      /\ \A i \in CallIds :
           (calls'[i].hop # calls[i].hop /\ calls'[i].hop # NoHop) =>
             Len(handlers'[calls'[i].hop.handler].applied) = 1 ]_vars

\* The root was constructed before the session held any item and the leaf,
\* for a forwarded command, when it held one; the session then gained
\* another item, which neither was handed.
C30_Witness ==
  /\ sessionData["S1"] = <<"pref-a", "pref-b">>
  /\ \E i \in CallIds :
       /\ calls[i].hop # NoHop
       /\ calls[i].hop.constructed
       /\ handlers[calls[i].handler].applied = << <<>> >>
       /\ handlers[calls[i].hop.handler].applied = << <<"pref-a">> >>

\* C31: matchContext answers true for a descriptor of type All, whatever
\* the context and whether or not the descriptor carries an id.
C31_AllMatches ==
  \A k \in 1..Len(queries) :
    (queries[k].op = "matchContext"
       /\ queries[k].descriptor.type = ContextDescriptorType.All) =>
      queries[k].value[1] = TRUE

\* A descriptor of type All matched a leaf context, and a descriptor of
\* another context did not match it.
C31_Witness ==
  /\ \E k \in 1..Len(queries) :
       /\ queries[k].op = "matchContext"
       /\ queries[k].descriptor = [type |-> "All", id |-> "all"]
       /\ queries[k].context \in LeafContexts
       /\ queries[k].value[1] = TRUE
  /\ \E k \in 1..Len(queries) :
       /\ queries[k].op = "matchContext"
       /\ queries[k].descriptor.type = "TopBrowsingContext"
       /\ queries[k].context \in LeafContexts
       /\ queries[k].value[1] = FALSE

\* C32: a handler on which destroy() has been called holds no module
\* instance in its cache, in any later state.
C32_EmptyAfterDestroy ==
  \A h \in HandlerIds :
    handlers[h].destroyed > 0 => handlers[h].modules = {}

\* The destroyed notifications the listeners of handlers were called with.
Notifications ==
  {k \in 1..Len(received) : received[k].name = "message-handler-destroyed"}

\* C33: the handler a listener of the destroyed notification is called
\* with has no listener in its dispatcher and no cached module instance:
\* destroy() tears both down before it emits the notification.
C33_TornBeforeNotified ==
  \A k \in Notifications :
    /\ received[k].data.eventsDispatcher = [state |-> "destroyed", listeners |-> <<>>]
    /\ received[k].data.modules = {}

\* An observer was notified of the destruction of a handler whose cache
\* held an instance and whose dispatcher had a listener, called by an emit
\* before.
C33_Witness ==
  \E k \in Notifications :
    /\ received[k].data.released # {}
    /\ \E e \in 1..Len(events) :
         /\ events[e].handler = received[k].handler
         /\ events[e].left # <<>>

\* The module invocations made for the current attempt of a call: by the
\* handler called and by the hop the command was forwarded to.
Invocations(f) ==
  Len(f.invoked) + (IF f.hop = NoHop THEN 0 ELSE Len(f.hop.invoked))

\* A call has completed, with a result or with a failure.
Completed(f) ==
  /\ f.state = "done"
  /\ f.outcome.kind \in {"value", "error"}
  /\ f.hop # NoHop => f.hop.state = "done"

\* C34: under a transport that answers or aborts, a command forwarded over
\* the chain of hops terminates: a forward is attempted a bounded number of
\* times, each attempt is handled by at most one module invocation, and
\* from some point on every call made has completed with a result or a
\* failure.
C34_Terminates ==
  /\ [](\A i \in CallIds :
          /\ calls[i].attempts <= MaxForwardAttempts
          /\ Invocations(calls[i]) <= 1)
  /\ <>[](\A i \in CallIds : Completed(calls[i]))

\* Both calls have completed: one sent to the root, forwarded twice,
\* aborted once, and answered by the one module its second attempt invoked;
\* the other forwarded once and failed with the abort, no module invoked.
C34_Witness ==
  /\ Len(calls) = MaxCalls
  /\ \A i \in CallIds : Completed(calls[i])
  /\ \E i \in CallIds :
       /\ calls[i].attempts = 2
       /\ Invocations(calls[i]) = 1
       /\ ~IsFailure(calls[i].outcome)
  /\ \E i \in CallIds :
       /\ calls[i].attempts = 1
       /\ Invocations(calls[i]) = 0
       /\ calls[i].outcome = AbortError

\* The session of the handler on which the emitEvent call was made that
\* what a listener received stems from.
SessionOfOrigin(k) == handlers[events[received[k].origin].handler].sessionId

\* C35: events do not cross sessions: what a listener of a handler is
\* called with stems from an emitEvent call on a handler of the same
\* session, and an envelope a listener of a root is called with names the
\* session of that root.
C35_WithinSession ==
  \A k \in 1..Len(received) :
    LET h == received[k].handler
    IN /\ received[k].origin \in 1..Len(events)
       /\ SessionOfOrigin(k) = handlers[h].sessionId
       /\ (handlers[h].type = "Root" /\ received[k].name = "message-handler-event") =>
            received[k].data.sessionId = handlers[h].sessionId

\* An event emitted on the leaf of one session has reached the listeners of
\* that session's root, an event emitted on the root of the other session
\* the listeners of that root; no listener of either root heard both.
C35_Witness ==
  /\ \E k \in 1..Len(received) :
       /\ handlers[received[k].handler].type = "Root"
       /\ handlers[received[k].handler].sessionId = "S1"
       /\ handlers[events[received[k].origin].handler].type = "Leaf"
       /\ received[k].name = "message-handler-event"
  /\ \E k \in 1..Len(received) :
       /\ handlers[received[k].handler].type = "Root"
       /\ handlers[received[k].handler].sessionId = "S2"
       /\ received[k].name = "message-handler-event"
  /\ links = <<>>

\* C36: the identity of a handler is fixed at construction: its sessionId
\* is the constructor's argument, its contextId is what getIdFromContext
\* of its class gives for the constructor's context, its name is made of
\* both and the type; and no step changes the sessionId, the contextId or
\* the name of a handler.
C36_IdentityFixed ==
  /\ [](/\ \A t \in TypeSet, s \in Sessions : \A c \in ContextsOf(t) :
             /\ MessageHandler(t, s, c).sessionId = s
             /\ MessageHandler(t, s, c).contextId = getIdFromContext(t, c)
        /\ \A h \in HandlerIds :
             /\ handlers[h].contextId =
                  getIdFromContext(handlers[h].type, handlers[h].context)
             /\ get_name(handlers[h]) \in
                  { s \o "-Root-root" : s \in Sessions }
                    \cup { s \o "-Leaf-" \o c.id : s \in Sessions, c \in LeafContexts })
  /\ [][\A h \in HandlerIds :
          /\ handlers'[h].sessionId = handlers[h].sessionId
          /\ handlers'[h].contextId = handlers[h].contextId
          /\ get_name(handlers'[h]) = get_name(handlers[h])]_vars

\* A leaf that went through everything: it was handed session data at
\* construction, handled a forwarded command, emitted an event and was
\* destroyed; it is still named after its session and its context.
C36_Witness ==
  \E h \in HandlerIds :
    /\ get_name(handlers[h]) = "S1-Leaf-ctx-42"
    /\ handlers[h].destroyed > 0
    /\ handlers[h].released # {}
    /\ handlers[h].applied # <<>> /\ handlers[h].applied[1] # <<>>
    /\ \E e \in 1..Len(events) : events[e].handler = h

\* What the listeners of one emitEvent call received: the calls made on the
\* handler of the call for the event the call stems from.
SameCall(j, k) ==
  /\ received[j].handler = received[k].handler
  /\ received[j].origin = received[k].origin

\* The listeners called with an envelope, and those called with an event
\* under its own name.
Envelopes == {k \in 1..Len(received) : received[k].name = "message-handler-event"}

Bare == {k \in 1..Len(received) : received[k].name \in EventNames}

\* C37: an emitEvent call for an event that is not a protocol event emits
\* the envelope first and the event under its own name second: every
\* listener of the envelope is called before any listener of the name is,
\* and with an envelope that says so.
C37_EnvelopeFirst ==
  /\ \A e \in 1..Len(events) :
       /\ events[e].emitted[1].name = "message-handler-event"
       /\ Len(events[e].emitted) = 2 =>
            /\ ~events[e].emitted[1].data.isProtocolEvent
            /\ events[e].emitted[2] = [name |-> events[e].name, data |-> events[e].data]
  /\ \A k \in Bare :
       /\ \E j \in Envelopes : SameCall(j, k) /\ j < k
       /\ \A j \in Envelopes :
            SameCall(j, k) => (j < k /\ ~received[j].data.isProtocolEvent)

\* An event emitted on the leaf was heard there and, carried up, at the
\* root, each time by the listener of the envelope and then by the listener
\* of the name.
C37_Witness ==
  \E j1, k1, j2, k2 \in 1..Len(received) :
    /\ j1 \in Envelopes /\ k1 \in Bare /\ SameCall(j1, k1) /\ k1 = j1 + 1
    /\ j2 \in Envelopes /\ k2 \in Bare /\ SameCall(j2, k2) /\ k2 = j2 + 1
    /\ received[j1].origin = received[j2].origin
    /\ handlers[received[j1].handler].type = "Leaf"
    /\ handlers[received[j2].handler].type = "Root"

====
